---- MODULE Spec2Model ----
(***************************************************************************)
(* Model of the invoice pipeline of this repository:                       *)
(*   - the document assembler (processInvoices, createMergedInvoice and    *)
(*     main of the OCR post-processing script, src/apply-data-corrections  *)
(*     .js lines 1045-1647), and                                           *)
(*   - the ledger matcher (matchInvoices and main of the ledger merge      *)
(*     script, src/unnamed/part_000 lines 1-661).                          *)
(*                                                                         *)
(* Representation.  JavaScript strings on which the code computes (trim,   *)
(* case folding, regular expressions, substring search) are sequences of   *)
(* one-character strings; the empty sequence stands for every falsy value  *)
(* of such a field (undefined, null, '').  Fields that are only tested for *)
(* truthiness and equality (vendor_id, bu_code, document_type,             *)
(* meta_invoice_type) are TLA+ strings, "" being the falsy value.          *)
(* meta_source_page 0 stands for a missing page number (the code reads it  *)
(* through `|| 0`).  Money is an integer: cents in the assembler, tenths   *)
(* of a cent in the matcher (which rounds to cents).  Confidences are in   *)
(* hundredths.  Object identity is carried by a unique field: the row      *)
(* Number of a page, _raw_ledger_row of a ledger entry, all_source_rows of *)
(* a document handed to the matcher.                                       *)
(***************************************************************************)
EXTENDS Integers, Sequences, FiniteSets, TLC

VARIABLES
  \* ---- assembler (processInvoices / main of the post-processing script)
  rows,            \* data: the parsed CSV rows, each with Number and OCR
  pagesWithOcr,    \* rows with a parsed payload, sorted by source page
  i,               \* loop index of processInvoices (1-based)
  currentGroup,    \* the open group
  invoiceGroups,   \* the completed groups
  mergedInvoices,  \* createMergedInvoice(group) for every group, in order
  pc,              \* position of the post-processing script
  \* ---- matcher (matchInvoices / main of the ledger merge script)
  ledgerEntries,   \* every parsed ledger entry
  invoiceEntries,  \* the entries handed to matchInvoices
  journalEntries,
  ocrInvoices,     \* the documents handed to matchInvoices
  matches,
  unmatchedLedger,
  unmatchedOcr,
  pass2Ledger,     \* the filtered copy of unmatchedLedger Pass 2 iterates
  ledgerIdx,       \* loop index of the running pass (1-based)
  mergedData,      \* the output buckets built by main
  mpc,             \* position of the ledger merge script
  previousOutput,  \* merged-data.json as an earlier run on this input wrote it
  \* ---- one function of the scripts applied to one input
  fnIn,            \* the argument
  fnOut,           \* the results of the applications so far, in order
  fnPc             \* "idle", or "call" before and "return" after the last call

asmVars == <<rows, pagesWithOcr, i, currentGroup, invoiceGroups, mergedInvoices, pc>>
matchVars == <<ledgerEntries, invoiceEntries, journalEntries, ocrInvoices, matches,
               unmatchedLedger, unmatchedOcr, pass2Ledger, ledgerIdx, mergedData, mpc,
               previousOutput>>
fnVars == <<fnIn, fnOut, fnPc>>
vars == <<rows, pagesWithOcr, i, currentGroup, invoiceGroups, mergedInvoices, pc,
          ledgerEntries, invoiceEntries, journalEntries, ocrInvoices, matches,
          unmatchedLedger, unmatchedOcr, pass2Ledger, ledgerIdx, mergedData, mpc,
               previousOutput, fnIn, fnOut, fnPc>>

\* ------------------------------------------------------------------------
\* Bounds
\* ------------------------------------------------------------------------
MaxRows == 3
MaxLedger == 2
MaxDocs == 2
MaxClock == 2

\* ------------------------------------------------------------------------
\* JavaScript string operations, on sequences of characters
\* ------------------------------------------------------------------------
LowerLetters ==
  <<"a","b","c","d","e","f","g","h","i","j","k","l","m",
    "n","o","p","q","r","s","t","u","v","w","x","y","z">>
UpperLetters ==
  <<"A","B","C","D","E","F","G","H","I","J","K","L","M",
    "N","O","P","Q","R","S","T","U","V","W","X","Y","Z">>
Digits == {"0","1","2","3","4","5","6","7","8","9"}
Whitespace == {" ", "\t", "\n"}

UpperChar(c) ==
  IF \E k \in 1..26 : LowerLetters[k] = c
    THEN UpperLetters[CHOOSE k \in 1..26 : LowerLetters[k] = c]
    ELSE c
LowerChar(c) ==
  IF \E k \in 1..26 : UpperLetters[k] = c
    THEN LowerLetters[CHOOSE k \in 1..26 : UpperLetters[k] = c]
    ELSE c

toUpperCase(s) == [k \in 1..Len(s) |-> UpperChar(s[k])]
toLowerCase(s) == [k \in 1..Len(s) |-> LowerChar(s[k])]

\* String.prototype.trim
trim(s) ==
  LET keep == {k \in 1..Len(s) : s[k] \notin Whitespace}
  IN IF keep = {} THEN <<>>
     ELSE SubSeq(s, CHOOSE k \in keep : \A j \in keep : k <= j,
                    CHOOSE k \in keep : \A j \in keep : k >= j)

\* String.prototype.includes
includes(s, sub) ==
  \E k \in 0..(Len(s) - Len(sub)) : SubSeq(s, k + 1, k + Len(sub)) = sub

\* replace(/^0+/, '')
stripLeadingZeros(s) ==
  LET nz == {k \in 1..Len(s) : s[k] # "0"}
  IN IF nz = {} THEN <<>>
     ELSE SubSeq(s, CHOOSE k \in nz : \A j \in nz : k <= j, Len(s))

\* The elements of a sequence
Range(s) == {s[k] : k \in 1..Len(s)}

RECURSIVE Flatten(_)
Flatten(ss) == IF ss = <<>> THEN <<>> ELSE Head(ss) \o Flatten(Tail(ss))

\* ------------------------------------------------------------------------
\* Page payloads (the parsed OCR JSON of one page)
\* ------------------------------------------------------------------------
\* The payload of a row whose OCR blob parseOCR could not parse or repair
NULL == [null |-> TRUE]

DATE_ISO == <<"2","0","2","4","-","0","9","-","0","8">>
DATE_PLACEHOLDER == <<"Y","Y","Y","Y","-","M","M","-","D","D">>
DATE_NULL == <<"n","u","l","l">>
NA == <<"N","/","A">>
STR_NULL == <<"n","u","l","l">>
STR_STRING == <<"s","t","r","i","n","g">>
STR_UNKNOWN == <<"u","n","k","n","o","w","n">>
STR_UNKNOWN_CAP == <<"U","n","k","n","o","w","n">>
INV1 == <<"R","3","5">>
INV2 == <<"A","1">>
FOLIO == <<"9","7","0","0">>
FOLIO2 == <<"9","7","0","1">>
ACME == <<"A","c","m","e">>
DEPAUL == <<"D","e","p","a","u","l">>
ESA_SUITES == <<"E","S","A"," ","S","u","i","t","e","s">>
EXTENDED_STAY == <<"E","x","t","e","n","d","e","d"," ","S","t","a","y">>

\* In the pages of the model the amount due is the total on the pages without
\* vendor_id, and nothing on the others
Ocr(cont, date, num, vid, bu, vendor, hgt, total, type) ==
  [meta_source_page |-> 0,
   meta_is_continuation_page |-> cont,
   meta_has_grand_total |-> hgt,
   meta_invoice_type |-> type,
   invoice_number |-> num,
   invoice_date |-> date,
   vendor_name |-> vendor,
   vendor_id |-> vid,
   bu_code |-> bu,
   invoice_total |-> total,
   amount_due |-> IF vid = "" THEN total ELSE 0]

\* The page payloads the rows are drawn from (before the page number is set)
PageKinds ==
  { Ocr(FALSE, DATE_ISO, INV1,  "V1", "B1", ACME, FALSE, 0, "LODGING"),
    Ocr(FALSE, DATE_ISO, INV1,  "V1", "B1", ACME, TRUE, 54287, "LODGING"),
    Ocr(FALSE, DATE_ISO, INV2,  "V2", "B2", DEPAUL, TRUE, 100000, "STAFFING"),
    Ocr(TRUE,  <<>>,     <<>>,  "",   "",   ACME, FALSE, 0, "LODGING"),
    Ocr(TRUE,  <<>>,     NA,    "",   "",   ACME, TRUE, 54287, "LODGING"),
    Ocr(TRUE,  <<>>,     <<>>,  "V1", "",   ACME, FALSE, 0, "LODGING"),
    Ocr(FALSE, DATE_ISO, FOLIO, "",   "B1", ACME, TRUE, 54287, "LODGING"),
    Ocr(FALSE, DATE_ISO, FOLIO, "V1", "B1", ACME, TRUE, 54287, "LODGING"),
    Ocr(FALSE, <<>>,     FOLIO, "",   "",   ACME, TRUE, 54287, "LODGING"),
    Ocr(FALSE, DATE_ISO, FOLIO, "",   "B2", ACME, TRUE, 100000, "LODGING"),
    Ocr(FALSE, DATE_ISO, FOLIO2, "",  "B1", ACME, TRUE, 54287, "LODGING"),
    Ocr(FALSE, DATE_ISO, <<>>,  "",   "",   ACME, FALSE, 0, "LODGING"),
    Ocr(FALSE, DATE_ISO, INV1,  "",   "",   ACME, TRUE, 54287, "LODGING"),
    Ocr(FALSE, DATE_ISO, INV2,  "",   "",   ACME, TRUE, 100000, "LODGING"),
    Ocr(FALSE, <<>>,     <<>>,  "",   "",   STR_UNKNOWN_CAP, TRUE, 54287, "UNKNOWN"),
    Ocr(FALSE, DATE_PLACEHOLDER, <<>>, "V1", "B1", ACME, FALSE, 0, "LODGING"),
    Ocr(FALSE, DATE_ISO, INV1,  "V1", "B1", ESA_SUITES, FALSE, 0, "LODGING"),
    Ocr(TRUE,  <<>>,     <<>>,  "",   "",   EXTENDED_STAY, TRUE, 54287, "LODGING") }

\* Page numbers: 0 is a missing meta_source_page
PageNumbers == {0, 10, 11, 12}

RowPayloads ==
  {NULL} \cup {[k EXCEPT !.meta_source_page = n] : k \in PageKinds, n \in PageNumbers}

\* ------------------------------------------------------------------------
\* Vendor normalization and page classification (post-processing script)
\* ------------------------------------------------------------------------
normalizeVendorName(name) ==
  IF name = <<>> THEN <<>>
  ELSE LET normalized == trim(toLowerCase(name))
       IN IF \/ includes(normalized, <<"e","x","t","e","n","d","e","d"," ","s","t","a","y">>)
             \/ includes(normalized, <<"e","s","a"," ","m","a","n","a","g","e","m","e","n","t">>)
             \/ includes(normalized, <<"e","s","a"," ","s","u","i","t","e","s">>)
            THEN <<"e","s","a">>
            ELSE normalized

isSameVendor(vendor1, vendor2) ==
  normalizeVendorName(vendor1) = normalizeVendorName(vendor2)

isUnknownVendor(vendorName) ==
  IF vendorName = <<>> THEN TRUE
  ELSE LET normalized == trim(toLowerCase(vendorName))
       IN normalized = STR_UNKNOWN \/ normalized = <<>>

\* isEffectiveContinuationPage with the condition of line 1217 reading
\* hasNoDate && hasNoInvoiceNum
isEffectiveContinuationByNumberOnly(ocr) ==
  IF ocr = NULL THEN FALSE
  ELSE IF ocr.meta_is_continuation_page = TRUE THEN TRUE
  ELSE
    LET hasNoDate == \/ ocr.invoice_date = <<>>
                     \/ ocr.invoice_date = DATE_NULL
                     \/ ocr.invoice_date = DATE_PLACEHOLDER
        hasNoInvoiceNum == \/ ocr.invoice_number = <<>>
                           \/ ocr.invoice_number = NA
                           \/ ocr.invoice_number = STR_NULL
                           \/ ocr.invoice_number = STR_STRING
                           \/ ocr.invoice_number = STR_UNKNOWN
        hasNoVendorId == ocr.vendor_id = ""
        hasNoBuCode == ocr.bu_code = ""
        hasUnknownVendor == \/ ocr.vendor_name = <<>>
                            \/ ocr.vendor_name = STR_UNKNOWN
                            \/ ocr.vendor_name = STR_UNKNOWN_CAP
    IN IF hasNoDate /\ hasNoInvoiceNum THEN TRUE
       ELSE IF hasUnknownVendor /\ hasNoDate /\ hasNoVendorId /\ hasNoBuCode THEN TRUE
       ELSE FALSE

isEffectiveContinuationPage(ocr) ==
  IF ocr = NULL THEN FALSE
  ELSE IF ocr.meta_is_continuation_page = TRUE THEN TRUE
  ELSE
    LET hasNoDate == \/ ocr.invoice_date = <<>>
                     \/ ocr.invoice_date = DATE_NULL
                     \/ ocr.invoice_date = DATE_PLACEHOLDER
        hasNoInvoiceNum == \/ ocr.invoice_number = <<>>
                           \/ ocr.invoice_number = NA
                           \/ ocr.invoice_number = STR_NULL
                           \/ ocr.invoice_number = STR_STRING
                           \/ ocr.invoice_number = STR_UNKNOWN
        hasNoVendorId == ocr.vendor_id = ""
        hasNoBuCode == ocr.bu_code = ""
        hasUnknownVendor == \/ ocr.vendor_name = <<>>
                            \/ ocr.vendor_name = STR_UNKNOWN
                            \/ ocr.vendor_name = STR_UNKNOWN_CAP
    IN IF hasNoDate /\ (hasNoInvoiceNum \/ hasNoVendorId) THEN TRUE
       ELSE IF hasUnknownVendor /\ hasNoDate /\ hasNoVendorId /\ hasNoBuCode THEN TRUE
       ELSE FALSE

isHeaderPage(ocr) ==
  IF ocr = NULL THEN FALSE
  ELSE /\ ocr.vendor_id # ""
       /\ ocr.bu_code # ""
       /\ ocr.invoice_date # <<>>
       /\ ~ocr.meta_is_continuation_page

\* /^97\d+$/
isFolioPage(ocr) ==
  IF ocr = NULL THEN FALSE
  ELSE LET invoiceNum == ocr.invoice_number
       IN /\ invoiceNum # <<>>
          /\ Len(invoiceNum) >= 3
          /\ invoiceNum[1] = "9"
          /\ invoiceNum[2] = "7"
          /\ \A k \in 3..Len(invoiceNum) : invoiceNum[k] \in Digits

\* ------------------------------------------------------------------------
\* processInvoices
\* ------------------------------------------------------------------------
\* A page is {row, ocr}: row is the row's identity (its Number), ocr the
\* payload parseOCR returned for the row's OCR column.
PageOf(row) == [row |-> row.Number, ocr |-> row.OCR]

\* Array.prototype.sort with (a, b) => pageA - pageB: stable, ascending
InsertBySourcePage(sorted, p) ==
  LET n == Cardinality({k \in 1..Len(sorted) :
                          sorted[k].ocr.meta_source_page <= p.ocr.meta_source_page})
  IN SubSeq(sorted, 1, n) \o <<p>> \o SubSeq(sorted, n + 1, Len(sorted))

RECURSIVE sortBySourcePage(_)
sortBySourcePage(ps) ==
  IF ps = <<>> THEN <<>>
  ELSE InsertBySourcePage(sortBySourcePage(SubSeq(ps, 1, Len(ps) - 1)), ps[Len(ps)])

\* Mutant of filterValidOcr: a row without payload takes the row numbered
\* after it along
filterValidOcrWithNeighbour(rs) ==
  LET mapped == [k \in 1..Len(rs) |-> [row |-> rs[k].Number, ocr |-> rs[k].OCR]]
  IN SelectSeq(mapped,
       LAMBDA p : /\ p.ocr # NULL
                  /\ ~\E j \in 1..Len(rs) : rs[j].OCR = NULL /\ rs[j].Number + 1 = p.row)

\* rows.map(...).filter(p => p.ocr !== null)
filterValidOcr(rs) ==
  LET mapped == [k \in 1..Len(rs) |-> PageOf(rs[k])]
  IN SelectSeq(mapped, LAMBDA p : p.ocr # NULL)

isConsecutivePage(currentOcr, prevOcr) ==
  currentOcr.meta_source_page = prevOcr.meta_source_page + 1

\* The merge signals: the if / else-if chain setting shouldMerge
mergeSignal(currentOcr, prevOcr, firstOcr) ==
  LET isContinuation == currentOcr.meta_is_continuation_page = TRUE
      isEffectiveCont == isEffectiveContinuationPage(currentOcr)
      hasGrandTotal == currentOcr.meta_has_grand_total = TRUE
      invoiceTotal == currentOcr.invoice_total
      isConsecutive == isConsecutivePage(currentOcr, prevOcr)
  IN
  \* 1. explicit continuation + consecutive + same vendor
  IF isContinuation /\ isConsecutive
       /\ isSameVendor(currentOcr.vendor_name, prevOcr.vendor_name)
    THEN TRUE
  \* 2. consecutive + same vendor + no grand total + zero amount
  ELSE IF isConsecutive /\ isSameVendor(currentOcr.vendor_name, prevOcr.vendor_name)
            /\ ~hasGrandTotal /\ invoiceTotal = 0
    THEN TRUE
  \* 3. same invoice number + same vendor
  ELSE IF currentOcr.invoice_number # <<>> /\ currentOcr.invoice_number # NA
            /\ prevOcr.invoice_number = currentOcr.invoice_number
            /\ isSameVendor(currentOcr.vendor_name, prevOcr.vendor_name)
    THEN TRUE
  \* 4. continuation (marked or effective) + no vendor_id / bu_code + consecutive
  ELSE IF (isContinuation \/ isEffectiveCont) /\ currentOcr.vendor_id = ""
            /\ currentOcr.bu_code = "" /\ isConsecutive
    THEN \/ isSameVendor(currentOcr.vendor_name, firstOcr.vendor_name)
         \/ isUnknownVendor(currentOcr.vendor_name)
  \* 5. effective continuation + consecutive + same vendor, behind a header
  ELSE IF isEffectiveCont /\ isConsecutive
            /\ isSameVendor(currentOcr.vendor_name, firstOcr.vendor_name)
    THEN isHeaderPage(firstOcr)
  \* 6. folio page + consecutive + same vendor, behind a header
  ELSE IF isFolioPage(currentOcr) /\ isConsecutive
            /\ isSameVendor(currentOcr.vendor_name, firstOcr.vendor_name)
    THEN isHeaderPage(firstOcr) /\ currentOcr.vendor_id = ""
  \* 7. folio page with the bu_code of the first page
  ELSE IF isFolioPage(currentOcr) /\ isConsecutive
            /\ currentOcr.bu_code # "" /\ firstOcr.bu_code # ""
            /\ currentOcr.bu_code = firstOcr.bu_code
            /\ currentOcr.vendor_id = ""
            /\ isSameVendor(currentOcr.vendor_name, firstOcr.vendor_name)
    THEN TRUE
  \* 8. effective continuation with unknown vendor
  ELSE IF isEffectiveCont /\ isConsecutive /\ isUnknownVendor(currentOcr.vendor_name)
            /\ currentOcr.meta_invoice_type = firstOcr.meta_invoice_type
            /\ currentOcr.vendor_id = "" /\ currentOcr.bu_code = ""
    THEN TRUE
  ELSE FALSE

\* Mutant of overrideChain: override 1 (a new header page) is left out
overrideChainWithoutHeader(currentOcr, prevOcr, firstOcr) ==
  LET isContinuation == currentOcr.meta_is_continuation_page = TRUE
      isEffectiveCont == isEffectiveContinuationPage(currentOcr)
  IN
  IF /\ ~isContinuation /\ ~isEffectiveCont
     /\ currentOcr.invoice_number # <<>> /\ currentOcr.invoice_number # NA
     /\ firstOcr.invoice_number # <<>> /\ firstOcr.invoice_number # NA
     /\ currentOcr.invoice_number # firstOcr.invoice_number
     /\ ~isFolioPage(currentOcr)
    THEN TRUE
  ELSE IF /\ ~isContinuation /\ ~isEffectiveCont
          /\ currentOcr.meta_has_grand_total
          /\ prevOcr.meta_has_grand_total /\ currentOcr.invoice_total > 0
          /\ prevOcr.invoice_total > 0
    THEN ~(/\ isFolioPage(currentOcr)
           /\ currentOcr.bu_code # "" /\ firstOcr.bu_code # ""
           /\ currentOcr.bu_code = firstOcr.bu_code)
  ELSE FALSE

\* Overrides 1-3: the if / else-if chain; TRUE when shouldMerge is set to false
overrideChain(currentOcr, prevOcr, firstOcr) ==
  LET isContinuation == currentOcr.meta_is_continuation_page = TRUE
      isEffectiveCont == isEffectiveContinuationPage(currentOcr)
      isHeader == isHeaderPage(currentOcr)
      hasGrandTotal == currentOcr.meta_has_grand_total = TRUE
      invoiceTotal == currentOcr.invoice_total
  IN
  IF isHeader /\ ~isContinuation THEN TRUE
  ELSE IF /\ ~isContinuation /\ ~isEffectiveCont
          /\ currentOcr.invoice_number # <<>> /\ currentOcr.invoice_number # NA
          /\ firstOcr.invoice_number # <<>> /\ firstOcr.invoice_number # NA
          /\ currentOcr.invoice_number # firstOcr.invoice_number
          /\ ~isFolioPage(currentOcr)
    THEN TRUE
  ELSE IF /\ ~isContinuation /\ ~isEffectiveCont /\ hasGrandTotal
          /\ prevOcr.meta_has_grand_total /\ invoiceTotal > 0
          /\ prevOcr.invoice_total > 0
    THEN LET isFolioWithSameBuCode ==
               /\ isFolioPage(currentOcr)
               /\ currentOcr.bu_code # "" /\ firstOcr.bu_code # ""
               /\ currentOcr.bu_code = firstOcr.bu_code
         IN ~isFolioWithSameBuCode
  ELSE FALSE

\* Override 4: different vendor from the first page of the group
overrideVendor(currentOcr, firstOcr) ==
  /\ ~isSameVendor(currentOcr.vendor_name, firstOcr.vendor_name)
  /\ ~isUnknownVendor(currentOcr.vendor_name)

\* Override 5: non-consecutive pages
overrideNonConsecutive(currentOcr, prevOcr) ==
  /\ ~isConsecutivePage(currentOcr, prevOcr)
  /\ currentOcr.meta_source_page > prevOcr.meta_source_page + 1

\* Mutant of shouldMerge: a page is appended unless an override fires,
\* whether or not a merge signal fired
shouldMergeUnlessOverridden(currentOcr, prevOcr, firstOcr) ==
  /\ ~overrideChain(currentOcr, prevOcr, firstOcr)
  /\ ~overrideVendor(currentOcr, firstOcr)
  /\ ~overrideNonConsecutive(currentOcr, prevOcr)

\* shouldMerge after the signals and the overrides
shouldMerge(currentOcr, prevOcr, firstOcr) ==
  /\ mergeSignal(currentOcr, prevOcr, firstOcr)
  /\ ~overrideChain(currentOcr, prevOcr, firstOcr)
  /\ ~overrideVendor(currentOcr, firstOcr)
  /\ ~overrideNonConsecutive(currentOcr, prevOcr)

\* Mutant of shouldContinue: the next page is never looked at
shouldContinueNever(nextOcr, currentOcr, firstOcr) == FALSE

\* The lookahead: nextOcr is NULL past the end of the input
shouldContinue(nextOcr, currentOcr, firstOcr) ==
  IF nextOcr = NULL THEN FALSE
  ELSE
    LET nextIsConsecutive == nextOcr.meta_source_page = currentOcr.meta_source_page + 1
        nextIsEffectiveCont == isEffectiveContinuationPage(nextOcr)
        nextIsSameVendor == isSameVendor(nextOcr.vendor_name, firstOcr.vendor_name)
        nextIsFolio == isFolioPage(nextOcr)
        nextHasSameBuCode == /\ nextOcr.bu_code # "" /\ firstOcr.bu_code # ""
                             /\ nextOcr.bu_code = firstOcr.bu_code
        nextIsNewHeader == isHeaderPage(nextOcr)
    IN /\ nextIsConsecutive /\ nextIsSameVendor
       /\ \/ nextIsEffectiveCont
          \/ (nextIsFolio /\ nextHasSameBuCode /\ ~nextIsNewHeader
                /\ nextOcr.vendor_id = "")

\* The group is completed at the page just appended
completesGroup(currentOcr, nextOcr, firstOcr) ==
  /\ currentOcr.meta_has_grand_total = TRUE
  /\ currentOcr.invoice_total > 0
  /\ ~isEffectiveContinuationPage(currentOcr)
  /\ ~shouldContinue(nextOcr, currentOcr, firstOcr)

\* Mutant of pushLastGroup: the group open at the end of the input is lost
pushLastGroupForgotten(groups, group) == groups

\* The last group is pushed after the loop
pushLastGroup(groups, group) ==
  IF Len(group) > 0 THEN Append(groups, group) ELSE groups

\* ------------------------------------------------------------------------
\* createMergedInvoice
\* ------------------------------------------------------------------------
\* a || b on character strings and on plain strings
OrSeq(a, b) == IF a # <<>> THEN a ELSE b
OrStr(a, b) == IF a # "" THEN a ELSE b

\* Mutant of InsertByTotalDesc: the pages with a total are left in page order
InsertByTotalAtEnd(sorted, p) == Append(sorted, p)

\* pagesWithTotal.sort((a, b) => b.total - a.total): stable, descending
InsertByTotalDesc(sorted, p) ==
  LET n == Cardinality({k \in 1..Len(sorted) :
                          sorted[k].ocr.invoice_total >= p.ocr.invoice_total})
  IN SubSeq(sorted, 1, n) \o <<p>> \o SubSeq(sorted, n + 1, Len(sorted))

RECURSIVE sortByTotalDesc(_)
sortByTotalDesc(ps) ==
  IF ps = <<>> THEN <<>>
  ELSE InsertByTotalDesc(sortByTotalDesc(SubSeq(ps, 1, Len(ps) - 1)), ps[Len(ps)])

\* Mutant of totalOcrOf: the financial fields always come from the first page
totalOcrOfFirstPage(pages) == pages[1].ocr

\* The page whose financial fields the merged invoice takes
totalOcrOf(pages) ==
  LET pagesWithTotal ==
        sortByTotalDesc(SelectSeq(pages,
          LAMBDA p : p.ocr.meta_has_grand_total /\ p.ocr.invoice_total > 0))
  IN IF pagesWithTotal # <<>> THEN pagesWithTotal[1].ocr ELSE pages[1].ocr

\* The page whose header fields the merged invoice takes (processor_name is
\* not part of the modelled payload)
headerOcrOf(pages) ==
  LET found == SelectSeq(pages, LAMBDA p : p.ocr.vendor_id # "" \/ p.ocr.bu_code # "")
  IN IF found # <<>> THEN found[1].ocr ELSE pages[1].ocr

\* const sourcePages = pageOcrs.map(o => o?.meta_source_page || 0).sort(...)
sourcePagesOf(pages) ==
  LET sorted == sortBySourcePage(pages)
  IN [k \in 1..Len(sorted) |-> sorted[k].ocr.meta_source_page]

createMergedInvoice(group) ==
  LET pages == sortBySourcePage(group)
  IN IF Len(pages) = 1
     THEN [meta_source_page |-> pages[1].ocr.meta_source_page,
           meta_is_continuation_page |-> pages[1].ocr.meta_is_continuation_page,
           meta_has_grand_total |-> pages[1].ocr.meta_has_grand_total,
           meta_invoice_type |-> pages[1].ocr.meta_invoice_type,
           invoice_number |-> pages[1].ocr.invoice_number,
           invoice_date |-> pages[1].ocr.invoice_date,
           vendor_name |-> pages[1].ocr.vendor_name,
           vendor_id |-> pages[1].ocr.vendor_id,
           bu_code |-> pages[1].ocr.bu_code,
           invoice_total |-> pages[1].ocr.invoice_total,
           amount_due |-> pages[1].ocr.amount_due,
           merge_info |-> [page_count |-> 1,
                           source_pages |-> <<pages[1].ocr.meta_source_page>>,
                           was_merged |-> FALSE],
           all_source_rows |-> <<pages[1].row>>]
     ELSE
       LET totalOcr == totalOcrOf(pages)
           headerOcr == headerOcrOf(pages)
           sourcePages == sourcePagesOf(pages)
       IN [meta_source_page |-> sourcePages[1],
           meta_is_continuation_page |-> FALSE,
           meta_has_grand_total |-> TRUE,
           meta_invoice_type |-> OrStr(headerOcr.meta_invoice_type, "UNKNOWN"),
           invoice_number |->
             IF headerOcr.invoice_number # <<>> /\ headerOcr.invoice_number # NA
               THEN headerOcr.invoice_number
               ELSE OrSeq(totalOcr.invoice_number, NA),
           invoice_date |-> OrSeq(headerOcr.invoice_date, totalOcr.invoice_date),
           vendor_name |-> OrSeq(headerOcr.vendor_name, totalOcr.vendor_name),
           vendor_id |-> OrStr(headerOcr.vendor_id, totalOcr.vendor_id),
           bu_code |-> OrStr(headerOcr.bu_code, totalOcr.bu_code),
           invoice_total |-> totalOcr.invoice_total,
           amount_due |-> totalOcr.amount_due,
           merge_info |-> [page_count |-> Len(pages),
                           source_pages |-> sourcePages,
                           was_merged |-> TRUE],
           all_source_rows |-> [k \in 1..Len(pages) |-> pages[k].row]]

\* The grouping loop as a function of the sorted pages: the groups returned
\* when the loop is at page k with `group` open and `groups` completed
RECURSIVE groupPagesFrom(_, _, _, _)
groupPagesFrom(pages, k, group, groups) ==
  IF k > Len(pages) THEN pushLastGroup(groups, group)
  ELSE
    LET current == pages[k]
        nextOcr == IF k + 1 <= Len(pages) THEN pages[k + 1].ocr ELSE NULL
    IN IF Len(group) = 0
       THEN groupPagesFrom(pages, k + 1, <<current>>, groups)
       ELSE LET prevOcr == group[Len(group)].ocr
                firstOcr == group[1].ocr
            IN IF shouldMerge(current.ocr, prevOcr, firstOcr)
               THEN IF completesGroup(current.ocr, nextOcr, firstOcr)
                    THEN groupPagesFrom(pages, k + 1, <<>>,
                                        Append(groups, Append(group, current)))
                    ELSE groupPagesFrom(pages, k + 1, Append(group, current), groups)
               ELSE groupPagesFrom(pages, k + 1, <<current>>, Append(groups, group))

\* processInvoices as a function of the rows
processInvoices(rs) ==
  groupPagesFrom(sortBySourcePage(filterValidOcr(rs)), 1, <<>>, <<>>)

\* ------------------------------------------------------------------------
\* The post-processing script as a state machine
\* ------------------------------------------------------------------------
MatcherIdle ==
  /\ ledgerEntries = <<>> /\ invoiceEntries = <<>> /\ journalEntries = <<>>
  /\ ocrInvoices = <<>> /\ matches = <<>>
  /\ unmatchedLedger = <<>> /\ unmatchedOcr = <<>> /\ pass2Ledger = <<>>
  /\ ledgerIdx = 0 /\ mergedData = <<>> /\ mpc = "idle"
  /\ previousOutput = <<>>

\* No single function is being applied
FnIdle == fnIn = <<>> /\ fnOut = <<>> /\ fnPc = "idle"

\* main has read data.csv: every row has its Number and its OCR payload
Init ==
  /\ \E n \in 0..MaxRows : \E f \in [1..n -> RowPayloads] :
       rows = [k \in 1..n |-> [Number |-> k, OCR |-> f[k]]]
  /\ pagesWithOcr = <<>>
  /\ i = 0
  /\ currentGroup = <<>>
  /\ invoiceGroups = <<>>
  /\ mergedInvoices = <<>>
  /\ pc = "start"
  /\ MatcherIdle
  /\ FnIdle

\* processInvoices up to the loop: parse, filter, sort
ParseAndSort ==
  /\ pc = "start"
  /\ pagesWithOcr' = sortBySourcePage(filterValidOcr(rows))
  /\ i' = 1
  /\ currentGroup' = <<>>
  /\ invoiceGroups' = <<>>
  /\ pc' = "group"
  /\ UNCHANGED <<rows, mergedInvoices>>
  /\ UNCHANGED matchVars
  /\ UNCHANGED fnVars

\* One iteration of the grouping loop
GroupPage ==
  /\ pc = "group"
  /\ i <= Len(pagesWithOcr)
  /\ LET current == pagesWithOcr[i]
         currentOcr == current.ocr
         nextOcr == IF i + 1 <= Len(pagesWithOcr) THEN pagesWithOcr[i + 1].ocr ELSE NULL
     IN IF Len(currentGroup) = 0
        THEN /\ currentGroup' = <<current>>
             /\ UNCHANGED invoiceGroups
        ELSE LET prevOcr == currentGroup[Len(currentGroup)].ocr
                 firstOcr == currentGroup[1].ocr
             IN IF shouldMerge(currentOcr, prevOcr, firstOcr)
                THEN IF completesGroup(currentOcr, nextOcr, firstOcr)
                     THEN /\ invoiceGroups' = Append(invoiceGroups, Append(currentGroup, current))
                          /\ currentGroup' = <<>>
                     ELSE /\ currentGroup' = Append(currentGroup, current)
                          /\ UNCHANGED invoiceGroups
                ELSE /\ invoiceGroups' = Append(invoiceGroups, currentGroup)
                     /\ currentGroup' = <<current>>
  /\ i' = i + 1
  /\ UNCHANGED <<rows, pagesWithOcr, mergedInvoices, pc>>
  /\ UNCHANGED matchVars
  /\ UNCHANGED fnVars

\* After the loop: the last group, and the return to main
CloseLastGroup ==
  /\ pc = "group"
  /\ i > Len(pagesWithOcr)
  /\ invoiceGroups' = pushLastGroup(invoiceGroups, currentGroup)
  /\ pc' = "merge"
  /\ UNCHANGED <<rows, pagesWithOcr, i, currentGroup, mergedInvoices>>
  /\ UNCHANGED matchVars
  /\ UNCHANGED fnVars

\* main: createMergedInvoice for every group
MergeGroups ==
  /\ pc = "merge"
  /\ mergedInvoices' = [g \in 1..Len(invoiceGroups) |-> createMergedInvoice(invoiceGroups[g])]
  /\ pc' = "done"
  /\ UNCHANGED <<rows, pagesWithOcr, i, currentGroup, invoiceGroups>>
  /\ UNCHANGED matchVars
  /\ UNCHANGED fnVars

Next ==
  \/ ParseAndSort
  \/ GroupPage
  \/ CloseLastGroup
  \/ MergeGroups

Spec == Init /\ [][Next]_vars

\* ------------------------------------------------------------------------
\* Properties of the assembler
\* ------------------------------------------------------------------------
\* Every group the assembler holds: the completed ones and the open one
AllGroups ==
  IF pc = "group" /\ currentGroup # <<>>
    THEN Append(invoiceGroups, currentGroup)
    ELSE invoiceGroups

NonDecreasingPages(ps) ==
  \A k \in 1..(Len(ps) - 1) : ps[k].ocr.meta_source_page <= ps[k + 1].ocr.meta_source_page

AssemblyReturned == pc \in {"merge", "done"}

\* C1: the groups processInvoices returns partition the pages that have a
\* parsed payload: every such page is in exactly one group and no other page
\* is, no group is empty, the groups laid end to end are the page sequence
\* sorted by source page (so each group is a contiguous run of it and the
\* groups are ordered by their first page), and the group open at the end of
\* the input has been closed.  While the loop runs, the groups held so far
\* partition the pages already visited.
PartitionProperty ==
  /\ \A g \in 1..Len(invoiceGroups) : invoiceGroups[g] # <<>>
  /\ pc = "group" =>
       Flatten(AllGroups) = SubSeq(pagesWithOcr, 1, i - 1)
  /\ AssemblyReturned =>
       LET flat == Flatten(invoiceGroups)
       IN /\ \A r \in 1..Len(rows) :
               Cardinality({k \in 1..Len(flat) : flat[k].row = r})
                 = IF rows[r].OCR # NULL THEN 1 ELSE 0
          /\ \A k \in 1..Len(flat) :
               /\ flat[k].row \in 1..Len(rows)
               /\ flat[k].ocr = rows[flat[k].row].OCR
          /\ NonDecreasingPages(flat)
          /\ flat = pagesWithOcr
          /\ \A g \in 1..(Len(invoiceGroups) - 1) :
               invoiceGroups[g][1].ocr.meta_source_page
                 <= invoiceGroups[g + 1][1].ocr.meta_source_page
          /\ currentGroup # <<>> => invoiceGroups[Len(invoiceGroups)] = currentGroup

\* Witness of C1: an unsorted input with an unparsed row was split into two
\* groups, the second one closed at the end of the input
PartitionWitness ==
  /\ pc = "done"
  /\ Len(rows) = 3
  /\ rows[1].OCR = NULL
  /\ rows[2].OCR # NULL
  /\ rows[3].OCR # NULL
  /\ rows[2].OCR.meta_source_page > rows[3].OCR.meta_source_page
  /\ Len(invoiceGroups) = 2
  /\ currentGroup # <<>>

StrictlyIncreasing(ns) == \A k \in 1..(Len(ns) - 1) : ns[k] < ns[k + 1]

\* C2: in every assembled document, member_pages (merge_info.source_pages)
\* is non-empty and strictly increasing
MemberPagesStrictlyIncreasing ==
  \A d \in 1..Len(mergedInvoices) :
    /\ mergedInvoices[d].merge_info.source_pages # <<>>
    /\ StrictlyIncreasing(mergedInvoices[d].merge_info.source_pages)

\* The override conditions as the specification states them, for a page
\* examined against the last page and the first page of the open group
isPlaceholderNumber(num) == num = <<>> \/ num = NA
hasPositiveGrandTotal(ocr) == ocr.meta_has_grand_total /\ ocr.invoice_total > 0

OverrideHeader(currentOcr) ==
  isHeaderPage(currentOcr) /\ ~currentOcr.meta_is_continuation_page

OverrideNumberDiffers(currentOcr, firstOcr) ==
  /\ ~isPlaceholderNumber(currentOcr.invoice_number)
  /\ ~isPlaceholderNumber(firstOcr.invoice_number)
  /\ currentOcr.invoice_number # firstOcr.invoice_number
  /\ ~isEffectiveContinuationPage(currentOcr)
  /\ ~isFolioPage(currentOcr)

OverrideBothTotals(currentOcr, prevOcr, firstOcr) ==
  /\ hasPositiveGrandTotal(currentOcr)
  /\ hasPositiveGrandTotal(prevOcr)
  /\ ~isEffectiveContinuationPage(currentOcr)
  /\ ~(isFolioPage(currentOcr) /\ currentOcr.bu_code # ""
         /\ currentOcr.bu_code = firstOcr.bu_code)

OverridePartyDiffers(currentOcr, firstOcr) ==
  /\ ~isSameVendor(currentOcr.vendor_name, firstOcr.vendor_name)
  /\ ~isUnknownVendor(currentOcr.vendor_name)

OverrideNotAdjacent(currentOcr, prevOcr) ==
  currentOcr.meta_source_page # prevOcr.meta_source_page + 1

OverrideGap(currentOcr, prevOcr) ==
  currentOcr.meta_source_page > prevOcr.meta_source_page + 1

\* No page was appended to a group while an override of `Ov` held for it
NoMemberUnder(Ov(_, _, _)) ==
  \A g \in 1..Len(AllGroups) : \A k \in 2..Len(AllGroups[g]) :
    ~Ov(AllGroups[g][k].ocr, AllGroups[g][k - 1].ocr, AllGroups[g][1].ocr)

StatedOverride(currentOcr, prevOcr, firstOcr) ==
  \/ OverrideHeader(currentOcr)
  \/ OverrideNumberDiffers(currentOcr, firstOcr)
  \/ OverrideBothTotals(currentOcr, prevOcr, firstOcr)
  \/ OverridePartyDiffers(currentOcr, firstOcr)
  \/ OverrideNotAdjacent(currentOcr, prevOcr)

\* C8: overrides always win: a page for which any override condition holds
\* (header and not declared continuation; differing non-placeholder document
\* numbers outside continuation/folio cases; positive grand totals on it and
\* on the previous page outside continuation/folio-with-shared-code cases;
\* a known party differing from the group head's; not adjacent to the
\* previous page) is never appended to the open group
OverridesAlwaysWin == NoMemberUnder(StatedOverride)

GapOverride(currentOcr, prevOcr, firstOcr) ==
  \/ OverrideHeader(currentOcr)
  \/ OverrideNumberDiffers(currentOcr, firstOcr)
  \/ OverrideBothTotals(currentOcr, prevOcr, firstOcr)
  \/ OverridePartyDiffers(currentOcr, firstOcr)
  \/ OverrideGap(currentOcr, prevOcr)

\* The same with "not adjacent" read as the code reads it (a gap)
OverridesWinExceptSamePage == NoMemberUnder(GapOverride)

\* The input of the example of C9: three consecutive pages of one party,
\* page 10 a header without total, page 11 a declared continuation without
\* total, page 12 a folio page with grand total 542.87
ExamplePages ==
  /\ Len(pagesWithOcr) = 3
  /\ pagesWithOcr[1].ocr.meta_source_page = 10
  /\ pagesWithOcr[2].ocr.meta_source_page = 11
  /\ pagesWithOcr[3].ocr.meta_source_page = 12
  /\ isHeaderPage(pagesWithOcr[1].ocr)
  /\ ~hasPositiveGrandTotal(pagesWithOcr[1].ocr)
  /\ pagesWithOcr[2].ocr.meta_is_continuation_page
  /\ ~hasPositiveGrandTotal(pagesWithOcr[2].ocr)
  /\ isFolioPage(pagesWithOcr[3].ocr)
  /\ pagesWithOcr[3].ocr.meta_has_grand_total
  /\ pagesWithOcr[3].ocr.invoice_total = 54287
  /\ isSameVendor(pagesWithOcr[2].ocr.vendor_name, pagesWithOcr[1].ocr.vendor_name)
  /\ isSameVendor(pagesWithOcr[3].ocr.vendor_name, pagesWithOcr[1].ocr.vendor_name)

ExampleDocument ==
  /\ Len(mergedInvoices) = 1
  /\ mergedInvoices[1].merge_info.source_pages = <<10, 11, 12>>
  /\ mergedInvoices[1].invoice_total = 54287
  /\ mergedInvoices[1].merge_info.was_merged = TRUE

\* C9 as stated: the three pages of the example assemble into one document
\* with member_pages = [10,11,12], total 542.87 and was_multi_page = true
ExampleAssembles ==
  (pc = "done" /\ ExamplePages) => ExampleDocument

\* C9 as amended: the same when the folio page carries no party identifier
\* (vendor_id) of its own
ExampleAssemblesWithoutOwnId ==
  (pc = "done" /\ ExamplePages /\ pagesWithOcr[3].ocr.vendor_id = "") => ExampleDocument

\* Witness of C9: the example ran to the end with such a folio page
ExampleWitness ==
  /\ pc = "done"
  /\ ExamplePages
  /\ pagesWithOcr[3].ocr.vendor_id = ""
  /\ Len(invoiceGroups) = 1

\* ------------------------------------------------------------------------
\* The ledger merge script: normalization
\* ------------------------------------------------------------------------
DEPAUL_USA == <<"D","e","p","a","u","l"," ","U","S","A">>
ACME_UPPER == <<"A","C","M","E">>

\* VENDOR_MAPPINGS, restricted to the keys of the vendors of the model
VENDOR_MAPPINGS_KEYS ==
  { <<"d","e","p","a","u","l"," ","u","s","a">>, <<"d","e","p","a","u","l">> }
VENDOR_MAPPINGS(key) ==
  CASE key = <<"d","e","p","a","u","l"," ","u","s","a">> -> DEPAUL_USA
    [] key = <<"d","e","p","a","u","l">> -> DEPAUL_USA

normalizeVendorForLedgerMatch(vendorName) ==
  IF vendorName = <<>> THEN <<>>
  ELSE LET lower == trim(toLowerCase(vendorName))
       IN IF lower \in VENDOR_MAPPINGS_KEYS THEN VENDOR_MAPPINGS(lower) ELSE vendorName

normalizeInvoiceNumber(invoiceNum) ==
  IF invoiceNum = <<>> THEN <<>>
  ELSE toUpperCase(stripLeadingZeros(trim(invoiceNum)))

AllDigits(s) == \A k \in 1..Len(s) : s[k] \in Digits

\* padStart(2, '0')
padStart2(s) == IF Len(s) < 2 THEN <<"0">> \o s ELSE s

normalizeDate(dateStr) ==
  IF dateStr = <<>> THEN <<>>
  ELSE
    LET str == trim(dateStr)
        \* /^\d{4}-\d{2}-\d{2}$/
        isIso == /\ Len(str) = 10
                 /\ str[5] = "-" /\ str[8] = "-"
                 /\ \A k \in {1, 2, 3, 4, 6, 7, 9, 10} : str[k] \in Digits
        \* /^(\d{1,2})\/(\d{1,2})\/(\d{4})$/ : the lengths of the two groups
        usSplits == {ab \in {1, 2} \X {1, 2} :
                       /\ Len(str) = ab[1] + ab[2] + 6
                       /\ str[ab[1] + 1] = "/"
                       /\ str[ab[1] + ab[2] + 2] = "/"
                       /\ AllDigits(SubSeq(str, 1, ab[1]))
                       /\ AllDigits(SubSeq(str, ab[1] + 2, ab[1] + ab[2] + 1))
                       /\ AllDigits(SubSeq(str, ab[1] + ab[2] + 3, Len(str)))}
    IN IF isIso THEN str
       ELSE IF usSplits # {}
         THEN LET ab == CHOOSE x \in usSplits : TRUE
                  month == padStart2(SubSeq(str, 1, ab[1]))
                  day == padStart2(SubSeq(str, ab[1] + 2, ab[1] + ab[2] + 1))
                  year == SubSeq(str, ab[1] + ab[2] + 3, Len(str))
              IN year \o <<"-">> \o month \o <<"-">> \o day
         ELSE str

\* Math.round(amount * 100), the amount being held in tenths of a cent
toCents(amount) == (amount + 5) \div 10

\* ------------------------------------------------------------------------
\* The ledger merge script: inputs
\* ------------------------------------------------------------------------
DATE_US == <<"9","/","8","/","2","0","2","4">>
LEDGER_NUM == <<"0","r","3","5">>
OCR_NUM == <<" ","R","3","5">>
OCR_NA == <<"n","/","a">>

Ledger(type, num, vendor, date, debit) ==
  [_raw_ledger_row |-> 0,
   document_type |-> type,
   invoice_number |-> num,
   vendor_name |-> vendor,
   invoice_date |-> date,
   debit |-> debit]

\* The parsed ledger entries the input is drawn from (before the row is set)
LedgerKinds ==
  { Ledger("Invoice", num, vendor, dd[1], dd[2]) :
      num \in {<<>>, LEDGER_NUM, NA},
      vendor \in {DEPAUL_USA, ACME_UPPER},
      dd \in {<<DATE_ISO, 2240000>>, <<DATE_US, 2240004>>} }
  \cup
  { Ledger("Invoice", LEDGER_NUM, DEPAUL_USA, <<>>, 0),
    Ledger("Invoice", <<>>, <<>>, DATE_ISO, 0),
    Ledger("Journal", <<>>, DEPAUL_USA, DATE_ISO, 2240000),
    Ledger("Payment", LEDGER_NUM, DEPAUL_USA, DATE_ISO, 2240000) }

Doc(num, vendor, date, total) ==
  [all_source_rows |-> <<0>>,
   invoice_number |-> num,
   vendor_name |-> vendor,
   invoice_date |-> date,
   invoice_total |-> total]

\* The assembled documents the input is drawn from (before the row is set)
DocKinds ==
  { Doc(num, vendor, dd[1], dd[2]) :
      num \in {<<>>, OCR_NUM, OCR_NA},
      vendor \in {DEPAUL, ACME},
      dd \in {<<DATE_ISO, 2240000>>, <<<<>>, 0>>} }
  \cup
  { Doc(<<>>, <<>>, <<>>, 0),
    Doc(<<>>, <<>>, DATE_ISO, 0) }

\* ------------------------------------------------------------------------
\* matchInvoices
\* ------------------------------------------------------------------------
\* new Date().toISOString(): the readings of the clock
ClockValues == 1..MaxClock

\* Confidences, in hundredths
CONF_INVOICE_NUMBER == 95
CONF_VENDOR_DATE_AMOUNT == 85
CONF_LEDGER_ONLY == 100
CONF_OCR_ONLY == 50

\* The index built over all documents: the candidates of a normalized number
ocrByInvoiceNum(key) ==
  SelectSeq(ocrInvoices,
    LAMBDA ocr : LET invoiceNum == normalizeInvoiceNumber(ocr.invoice_number)
                 IN invoiceNum # <<>> /\ invoiceNum # NA /\ invoiceNum = key)

\* Mutant of pass1VendorMatches: the comparison is case-sensitive
pass1VendorMatchesExactly(ocr, ledger) ==
  normalizeVendorForLedgerMatch(ocr.vendor_name) = ledger.vendor_name

\* Pass 1: the vendor check on a candidate
pass1VendorMatches(ocr, ledger) ==
  LET normalizedOcrVendor == normalizeVendorForLedgerMatch(ocr.vendor_name)
      ledgerVendor == ledger.vendor_name
  IN \/ toUpperCase(normalizedOcrVendor) = toUpperCase(ledgerVendor)
     \/ normalizedOcrVendor = ledgerVendor

\* Pass 1: the candidates that pass the vendor check, in index order
pass1Hits(ledger) ==
  LET ledgerInvoiceNum == normalizeInvoiceNumber(ledger.invoice_number)
  IN IF ledger.document_type # "Invoice" \/ ledgerInvoiceNum = <<>>
       THEN <<>>
       ELSE SelectSeq(ocrByInvoiceNum(ledgerInvoiceNum),
                      LAMBDA ocr : pass1VendorMatches(ocr, ledger))

\* Mutant of pass2Matches: the dates are compared as written
pass2MatchesRawDates(ocr, ledger) ==
  /\ toUpperCase(normalizeVendorForLedgerMatch(ocr.vendor_name)) = toUpperCase(ledger.vendor_name)
  /\ ledger.invoice_date = ocr.invoice_date
  /\ toCents(ledger.debit) = toCents(ocr.invoice_total)

\* Pass 2: vendor, date and amount in cents all agree
pass2Matches(ocr, ledger) ==
  LET ledgerVendor == ledger.vendor_name
      ledgerDate == normalizeDate(ledger.invoice_date)
      ledgerAmount == toCents(ledger.debit)
      normalizedOcrVendor == normalizeVendorForLedgerMatch(ocr.vendor_name)
      ocrDate == normalizeDate(ocr.invoice_date)
      ocrAmount == toCents(ocr.invoice_total)
  IN /\ toUpperCase(normalizedOcrVendor) = toUpperCase(ledgerVendor)
     /\ ledgerDate = ocrDate
     /\ ledgerAmount = ocrAmount

\* Mutant of pass2Hits: the documents are scanned from the end of the list
pass2HitsFromEnd(ledger, unmatched) ==
  IF normalizeDate(ledger.invoice_date) = <<>>
    THEN <<>>
    ELSE LET hits == SelectSeq(unmatched, LAMBDA ocr : pass2Matches(ocr, ledger))
         IN [k \in 1..Len(hits) |-> hits[Len(hits) + 1 - k]]

\* Pass 2: the still unmatched documents that agree, in their current order
pass2Hits(ledger, unmatched) ==
  IF normalizeDate(ledger.invoice_date) = <<>>
    THEN <<>>
    ELSE SelectSeq(unmatched, LAMBDA ocr : pass2Matches(ocr, ledger))

\* Mutant of pass2Entries: Pass 2 serves every ledger entry again
pass2EntriesAll(unmatched) == invoiceEntries

\* unmatchedLedger.filter(l => l.document_type === 'Invoice'), the list Pass 2 serves
pass2Entries(unmatched) ==
  SelectSeq(unmatched, LAMBDA l : l.document_type = "Invoice")

\* Mutant of removeFirst: the element stays in the list
removeNothing(list, x) == list

\* indexOf / findIndex followed by splice(idx, 1) when idx > -1
removeFirst(list, x) ==
  LET at == {k \in 1..Len(list) : list[k] = x}
  IN IF at = {} THEN list
     ELSE LET idx == CHOOSE k \in at : \A j \in at : k <= j
          IN SubSeq(list, 1, idx - 1) \o SubSeq(list, idx + 1, Len(list))

\* Mutant of pass2MatchInfo: Pass 2 reports the confidence of Pass 1
pass2MatchInfoAsPass1 == [type |-> "vendor_date_amount", confidence |-> CONF_INVOICE_NUMBER]

pass1MatchInfo == [type |-> "invoice_number", confidence |-> CONF_INVOICE_NUMBER]
pass2MatchInfo == [type |-> "vendor_date_amount", confidence |-> CONF_VENDOR_DATE_AMOUNT]

\* createMergedRecord: the record written for a pair or a single-sided entry
createMergedRecord(ledgerEntry, ocrData, matchInfo) ==
  [_data_sources |-> [ledger |-> ledgerEntry # NULL,
                      ocr |-> ocrData # NULL,
                      match_type |-> matchInfo.type,
                      match_confidence |-> matchInfo.confidence],
   ledger |-> ledgerEntry,
   ocr |-> ocrData]

\* ------------------------------------------------------------------------
\* The ledger merge script as a state machine
\* ------------------------------------------------------------------------
AssemblerIdle ==
  /\ rows = <<>> /\ pagesWithOcr = <<>> /\ i = 0 /\ currentGroup = <<>>
  /\ invoiceGroups = <<>> /\ mergedInvoices = <<>> /\ pc = "idle"

\* main has parsed ledger.csv and extracted the documents of data.csv
MatchInit ==
  /\ \E n \in 0..MaxLedger : \E f \in [1..n -> LedgerKinds] :
       ledgerEntries = [k \in 1..n |-> [f[k] EXCEPT !._raw_ledger_row = k]]
  /\ \E n \in 0..MaxDocs : \E f \in [1..n -> DocKinds] :
       ocrInvoices = [k \in 1..n |-> [f[k] EXCEPT !.all_source_rows = <<k>>]]
  /\ invoiceEntries = <<>>
  /\ journalEntries = <<>>
  /\ matches = <<>>
  /\ unmatchedLedger = <<>>
  /\ unmatchedOcr = <<>>
  /\ pass2Ledger = <<>>
  /\ ledgerIdx = 0
  /\ mergedData = <<>>
  /\ mpc = "start"
  /\ previousOutput = <<>>
  /\ AssemblerIdle
  /\ FnIdle

\* main splits the ledger by kind and calls matchInvoices, which copies its
\* arguments into the unmatched lists
StartMatch ==
  /\ mpc = "start"
  /\ invoiceEntries' = SelectSeq(ledgerEntries, LAMBDA e : e.document_type = "Invoice")
  /\ journalEntries' = SelectSeq(ledgerEntries, LAMBDA e : e.document_type = "Journal")
  /\ matches' = <<>>
  /\ unmatchedLedger' = invoiceEntries'
  /\ unmatchedOcr' = ocrInvoices
  /\ ledgerIdx' = 1
  /\ mpc' = "pass1"
  /\ UNCHANGED <<ledgerEntries, ocrInvoices, pass2Ledger, mergedData, previousOutput>>
  /\ UNCHANGED asmVars
  /\ UNCHANGED fnVars

\* Pass 1, one ledger entry
Pass1Entry ==
  /\ mpc = "pass1"
  /\ ledgerIdx <= Len(invoiceEntries)
  /\ LET ledger == invoiceEntries[ledgerIdx]
         hits == pass1Hits(ledger)
     IN IF hits # <<>>
        THEN /\ matches' = Append(matches,
                  [ledger |-> ledger, ocr |-> hits[1], matchInfo |-> pass1MatchInfo])
             /\ unmatchedLedger' = removeFirst(unmatchedLedger, ledger)
             /\ unmatchedOcr' = removeFirst(unmatchedOcr, hits[1])
        ELSE UNCHANGED <<matches, unmatchedLedger, unmatchedOcr>>
  /\ ledgerIdx' = ledgerIdx + 1
  /\ UNCHANGED <<ledgerEntries, invoiceEntries, journalEntries, ocrInvoices,
                 pass2Ledger, mergedData, mpc, previousOutput>>
  /\ UNCHANGED asmVars
  /\ UNCHANGED fnVars

\* Pass 2 starts on a filtered copy of the unmatched ledger entries
StartPass2 ==
  /\ mpc = "pass1"
  /\ ledgerIdx > Len(invoiceEntries)
  /\ pass2Ledger' = pass2Entries(unmatchedLedger)
  /\ ledgerIdx' = 1
  /\ mpc' = "pass2"
  /\ UNCHANGED <<ledgerEntries, invoiceEntries, journalEntries, ocrInvoices, matches,
                 unmatchedLedger, unmatchedOcr, mergedData, previousOutput>>
  /\ UNCHANGED asmVars
  /\ UNCHANGED fnVars

\* Pass 2, one ledger entry
Pass2Entry ==
  /\ mpc = "pass2"
  /\ ledgerIdx <= Len(pass2Ledger)
  /\ LET ledger == pass2Ledger[ledgerIdx]
         hits == pass2Hits(ledger, unmatchedOcr)
     IN IF hits # <<>>
        THEN /\ matches' = Append(matches,
                  [ledger |-> ledger, ocr |-> hits[1], matchInfo |-> pass2MatchInfo])
             /\ unmatchedOcr' = removeFirst(unmatchedOcr, hits[1])
             /\ unmatchedLedger' = removeFirst(unmatchedLedger, ledger)
        ELSE UNCHANGED <<matches, unmatchedLedger, unmatchedOcr>>
  /\ ledgerIdx' = ledgerIdx + 1
  /\ UNCHANGED <<ledgerEntries, invoiceEntries, journalEntries, ocrInvoices,
                 pass2Ledger, mergedData, mpc, previousOutput>>
  /\ UNCHANGED asmVars
  /\ UNCHANGED fnVars

\* matchInvoices returns; main builds the output buckets, stamped with the
\* time of the run
BuildMergedData ==
  /\ mpc = "pass2"
  /\ ledgerIdx > Len(pass2Ledger)
  /\ \E now \in ClockValues : mergedData' =
       [_metadata |-> [generated_at |-> now],
        matched_invoices |->
          [k \in 1..Len(matches) |->
             createMergedRecord(matches[k].ledger, matches[k].ocr, matches[k].matchInfo)],
        ledger_only |->
          [invoices |->
             LET ls == SelectSeq(unmatchedLedger, LAMBDA l : l.document_type = "Invoice")
             IN [k \in 1..Len(ls) |->
                   createMergedRecord(ls[k], NULL,
                     [type |-> "ledger_only", confidence |-> CONF_LEDGER_ONLY])],
           journals |->
             [k \in 1..Len(journalEntries) |->
                journalEntries[k] @@ [data_source |-> "LEDGER", type |-> "PAYROLL"]]],
        ocr_only |->
          [k \in 1..Len(unmatchedOcr) |->
             createMergedRecord(NULL, unmatchedOcr[k],
               [type |-> "ocr_only", confidence |-> CONF_OCR_ONLY])]]
  /\ mpc' = "done"
  /\ UNCHANGED <<ledgerEntries, invoiceEntries, journalEntries, ocrInvoices, matches,
                 unmatchedLedger, unmatchedOcr, pass2Ledger, ledgerIdx, previousOutput>>
  /\ UNCHANGED asmVars
  /\ UNCHANGED fnVars

\* The script is run a second time on the same ledger.csv and data.csv: the
\* file the first run wrote is kept aside, and main starts afresh
Rerun ==
  /\ mpc = "done"
  /\ previousOutput = <<>>
  /\ previousOutput' = mergedData
  /\ invoiceEntries' = <<>>
  /\ journalEntries' = <<>>
  /\ matches' = <<>>
  /\ unmatchedLedger' = <<>>
  /\ unmatchedOcr' = <<>>
  /\ pass2Ledger' = <<>>
  /\ ledgerIdx' = 0
  /\ mergedData' = <<>>
  /\ mpc' = "start"
  /\ UNCHANGED <<ledgerEntries, ocrInvoices>>
  /\ UNCHANGED asmVars
  /\ UNCHANGED fnVars

MatchNext ==
  \/ StartMatch
  \/ Pass1Entry
  \/ StartPass2
  \/ Pass2Entry
  \/ BuildMergedData
  \/ Rerun

MatchSpec == MatchInit /\ [][MatchNext]_vars

\* ------------------------------------------------------------------------
\* Properties of the matcher
\* ------------------------------------------------------------------------
TwoSided == {"invoice_number", "vendor_date_amount"}

MatchesOfLedger(e) ==
  {k \in 1..Len(matches) : matches[k].ledger = e /\ matches[k].matchInfo.type \in TwoSided}
MatchesOfDocument(d) ==
  {k \in 1..Len(matches) : matches[k].ocr = d /\ matches[k].matchInfo.type \in TwoSided}

\* C3: no assembled document appears in more than one two-sided match
DocumentInAtMostOneMatch ==
  \A d \in Range(ocrInvoices) : Cardinality(MatchesOfDocument(d)) <= 1

\* C4: no invoice-kind ledger entry appears in more than one two-sided
\* match: an entry matched in Pass 1 is not matched again in Pass 2, and
\* within a pass an entry consumes at most one document
LedgerEntryInAtMostOneMatch ==
  \A e \in Range(ledgerEntries) :
    e.document_type = "Invoice" => Cardinality(MatchesOfLedger(e)) <= 1

\* Witness of C4: an entry matched in Pass 1 ended the run while a document
\* that agrees with it on vendor, date and amount was still unmatched
LedgerOnceWitness ==
  /\ mpc = "done"
  /\ \E k \in 1..Len(matches) :
       /\ matches[k].matchInfo.type = "invoice_number"
       /\ \E d \in Range(unmatchedOcr) : pass2Hits(matches[k].ledger, <<d>>) # <<>>

RecordsOfLedger(bucket, e) == {k \in 1..Len(bucket) : bucket[k].ledger = e}
RecordsOfDocument(bucket, d) == {k \in 1..Len(bucket) : bucket[k].ocr = d}

\* C5: no-match cases are never dropped: an invoice-kind ledger entry is in
\* the ledger-only bucket (confidence 1.0) exactly when it is in no two-sided
\* match, a document is in the document-only bucket (confidence 0.5) exactly
\* when it is in no two-sided match, and every ledger invoice entry and
\* every document appears in the output
NoMatchNeverDropped ==
  mpc = "done" =>
    /\ \A e \in Range(ledgerEntries) :
         e.document_type = "Invoice" =>
           /\ Cardinality(RecordsOfLedger(mergedData.ledger_only.invoices, e))
                = IF MatchesOfLedger(e) = {} THEN 1 ELSE 0
           /\ \/ RecordsOfLedger(mergedData.ledger_only.invoices, e) # {}
              \/ RecordsOfLedger(mergedData.matched_invoices, e) # {}
    /\ \A d \in Range(ocrInvoices) :
         /\ Cardinality(RecordsOfDocument(mergedData.ocr_only, d))
              = IF MatchesOfDocument(d) = {} THEN 1 ELSE 0
         /\ \/ RecordsOfDocument(mergedData.ocr_only, d) # {}
            \/ RecordsOfDocument(mergedData.matched_invoices, d) # {}
    /\ \A k \in 1..Len(mergedData.ledger_only.invoices) :
         /\ mergedData.ledger_only.invoices[k]._data_sources.match_confidence = 100
         /\ mergedData.ledger_only.invoices[k].ocr = NULL
    /\ \A k \in 1..Len(mergedData.ocr_only) :
         /\ mergedData.ocr_only[k]._data_sources.match_confidence = 50
         /\ mergedData.ocr_only[k].ledger = NULL

\* Witness of C5: a run ended with a match, a ledger-only and a document-only
\* result
NoMatchWitness ==
  /\ mpc = "done"
  /\ Len(mergedData.matched_invoices) > 0
  /\ Len(mergedData.ledger_only.invoices) > 0
  /\ Len(mergedData.ocr_only) > 0

MatchedConfidences ==
  \A k \in 1..Len(mergedData.matched_invoices) :
    LET src == mergedData.matched_invoices[k]._data_sources
    IN /\ src.match_type \in TwoSided
       /\ src.match_type = "invoice_number" => src.match_confidence = 95
       /\ src.match_type = "vendor_date_amount" => src.match_confidence = 85

SingleSided ==
  Range(mergedData.ledger_only.invoices) \cup Range(mergedData.ocr_only)

\* C6 as stated: identifier matches carry 0.95, party+date+amount matches
\* carry 0.85, and 0.85 exceeds the confidence of every single-sided result
ConfidenceOrdering ==
  mpc = "done" =>
    /\ MatchedConfidences
    /\ \A r \in SingleSided : r._data_sources.match_confidence < 85

\* C6 as amended: identifier matches carry 0.95, party+date+amount matches
\* carry 0.85, which exceeds the 0.5 of every document-only result; every
\* ledger-only result carries 1.0, above both
ConfidenceOrderingLedgerOnTop ==
  mpc = "done" =>
    /\ MatchedConfidences
    /\ \A r \in Range(mergedData.ocr_only) :
         r._data_sources.match_confidence = 50 /\ 50 < 85
    /\ \A r \in Range(mergedData.ledger_only.invoices) :
         r._data_sources.match_confidence = 100 /\ 100 > 95

\* Witness of C6: a run ended with a party+date+amount match, a ledger-only
\* and a document-only result
ConfidenceWitness ==
  /\ mpc = "done"
  /\ \E r \in Range(mergedData.matched_invoices) :
       r._data_sources.match_type = "vendor_date_amount"
  /\ Len(mergedData.ledger_only.invoices) > 0
  /\ Len(mergedData.ocr_only) > 0

\* C7: every ledger entry that is not of kind Invoice is in no two-sided
\* match and is present in the output with its fields unchanged
NonInvoicePassedThrough ==
  mpc = "done" =>
    \A e \in Range(ledgerEntries) :
      e.document_type # "Invoice" =>
        /\ MatchesOfLedger(e) = {}
        /\ \E j \in Range(mergedData.ledger_only.journals) :
             \A f \in DOMAIN e : j[f] = e[f]

\* The premise of C10 for the entry Pass 1 is about to serve: it is of kind
\* Invoice, its normalized number is not empty, and a still unmatched
\* document has the same normalized number and a normalized party name equal
\* to the entry's up to case
Pass1Candidate(e) ==
  /\ e.document_type = "Invoice"
  /\ normalizeInvoiceNumber(e.invoice_number) # <<>>
  /\ \E d \in Range(unmatchedOcr) :
       /\ normalizeInvoiceNumber(d.invoice_number) = normalizeInvoiceNumber(e.invoice_number)
       /\ toUpperCase(normalizeVendorForLedgerMatch(d.vendor_name)) = toUpperCase(e.vendor_name)

Pass1Serving == mpc = "pass1" /\ ledgerIdx <= Len(invoiceEntries)

\* C10 as stated: every invoice-kind ledger entry with a non-empty normalized
\* document number for which an unmatched document has the same normalized
\* number and a case-insensitively equal normalized party ends Pass 1 in a
\* match of kind by-document-number with confidence 0.95
Pass1MatchesEveryCandidate ==
  [][ (Pass1Serving /\ Pass1Candidate(invoiceEntries[ledgerIdx])) =>
        \E k \in 1..Len(matches') :
          /\ matches'[k].ledger = invoiceEntries[ledgerIdx]
          /\ matches'[k].matchInfo.type = "invoice_number"
          /\ matches'[k].matchInfo.confidence = 95 ]_vars

\* C10 as amended: the same for every normalized document number other than
\* the placeholder N/A
Pass1MatchesEveryRealNumber ==
  [][ ( /\ Pass1Serving
        /\ Pass1Candidate(invoiceEntries[ledgerIdx])
        /\ normalizeInvoiceNumber(invoiceEntries[ledgerIdx].invoice_number) # NA ) =>
        \E k \in 1..Len(matches') :
          /\ matches'[k].ledger = invoiceEntries[ledgerIdx]
          /\ matches'[k].matchInfo.type = "invoice_number"
          /\ matches'[k].matchInfo.confidence = 95 ]_vars

\* Witness of C10: an identifier match whose two numbers and whose two party
\* names are equal only after normalization
Pass1Witness ==
  \E k \in 1..Len(matches) :
    /\ matches[k].matchInfo.type = "invoice_number"
    /\ matches[k].ledger.invoice_number # matches[k].ocr.invoice_number
    /\ matches[k].ledger.vendor_name # matches[k].ocr.vendor_name
    /\ matches[k].ledger.vendor_name # normalizeVendorForLedgerMatch(matches[k].ocr.vendor_name)

\* The premise of C11 for the entry Pass 2 is about to serve: its date is
\* resolvable, and a still unmatched document has a normalized party name
\* equal to the entry's up to case, the same normalized date and a total
\* equal in whole cents to the entry's debit
Pass2Candidate(e) ==
  /\ e.document_type = "Invoice"
  /\ normalizeDate(e.invoice_date) # <<>>
  /\ \E d \in Range(unmatchedOcr) :
       /\ toUpperCase(normalizeVendorForLedgerMatch(d.vendor_name)) = toUpperCase(e.vendor_name)
       /\ normalizeDate(d.invoice_date) = normalizeDate(e.invoice_date)
       /\ toCents(d.invoice_total) = toCents(e.debit)

Pass2Serving == mpc = "pass2" /\ ledgerIdx <= Len(pass2Ledger)

\* C11: every invoice-kind ledger entry left unmatched by Pass 1 that has a
\* resolvable date, and for which a still unmatched document has the same
\* normalized party, the same normalized date and a total equal in whole
\* cents to the entry's debit, ends Pass 2 in a match of kind
\* by-party-date-amount with confidence 0.85
Pass2MatchesEveryCandidate ==
  [][ (Pass2Serving /\ Pass2Candidate(pass2Ledger[ledgerIdx])) =>
        \E k \in 1..Len(matches') :
          /\ matches'[k].ledger = pass2Ledger[ledgerIdx]
          /\ matches'[k].matchInfo.type = "vendor_date_amount"
          /\ matches'[k].matchInfo.confidence = 85
          /\ MatchesOfLedger(pass2Ledger[ledgerIdx]) = {} ]_vars

\* Witness of C11: a party+date+amount match whose two party names, dates
\* and amounts are equal only after normalization and rounding to cents
Pass2Witness ==
  \E k \in 1..Len(matches) :
    /\ matches[k].matchInfo.type = "vendor_date_amount"
    /\ matches[k].ledger.vendor_name # matches[k].ocr.vendor_name
    /\ matches[k].ledger.invoice_date # matches[k].ocr.invoice_date
    /\ matches[k].ledger.debit # matches[k].ocr.invoice_total

isEmptyDocument(d) ==
  d.invoice_total = 0 /\ d.vendor_name = <<>> /\ d.invoice_number = <<>>

\* C12: a document with zero total, empty party and empty document number is
\* never part of a two-sided match, in either pass and whatever the ledger
\* contains, and it appears in the document-only bucket
EmptyDocumentExcluded ==
  \A d \in Range(ocrInvoices) :
    isEmptyDocument(d) =>
      /\ MatchesOfDocument(d) = {}
      /\ mpc = "done" => RecordsOfDocument(mergedData.ocr_only, d) # {}

\* C13: running the pipeline twice on the same input in the same order
\* yields identical output, every emitted field included
Determinism ==
  (mpc = "done" /\ previousOutput # <<>>) => mergedData = previousOutput

\* The same, the time stamp of the run set aside
DeterminismButTimestamp ==
  (mpc = "done" /\ previousOutput # <<>>) =>
    \A f \in DOMAIN mergedData \ {"_metadata"} : mergedData[f] = previousOutput[f]

\* The group processInvoices returned that holds the page of row r
GroupIndexOfRow(r) ==
  CHOOSE g \in 1..Len(invoiceGroups) :
    \E m \in 1..Len(invoiceGroups[g]) : invoiceGroups[g][m].row = r

\* No merge signal fires for page k against the page before it (whose group
\* is the one open when page k is examined), nor for the page after it
\* against page k
NoSignalAround(k) ==
  /\ k > 1 =>
       LET headOcr == invoiceGroups[GroupIndexOfRow(pagesWithOcr[k - 1].row)][1].ocr
       IN ~mergeSignal(pagesWithOcr[k].ocr, pagesWithOcr[k - 1].ocr, headOcr)
  /\ k < Len(pagesWithOcr) =>
       ~mergeSignal(pagesWithOcr[k + 1].ocr, pagesWithOcr[k].ocr, pagesWithOcr[k].ocr)

\* The assembled document is the page itself plus merge_info of a single page
IsThePageItself(doc, page) ==
  /\ DOMAIN doc = DOMAIN page.ocr \cup {"merge_info", "all_source_rows"}
  /\ \A f \in DOMAIN page.ocr : doc[f] = page.ocr[f]
  /\ doc.merge_info.was_merged = FALSE
  /\ doc.merge_info.page_count = 1
  /\ doc.merge_info.source_pages = <<page.ocr.meta_source_page>>
  /\ doc.all_source_rows = <<page.row>>

\* C14: identity on singletons: a page for which no merge signal fires,
\* neither for it against the preceding page nor for the following page
\* against it, yields a one-page assembled document whose fields are the
\* page's own, with was_multi_page = false and the page as its only member
IdentityOnSingletons ==
  pc = "done" =>
    \A k \in 1..Len(pagesWithOcr) :
      NoSignalAround(k) =>
        LET g == GroupIndexOfRow(pagesWithOcr[k].row)
        IN /\ invoiceGroups[g] = <<pagesWithOcr[k]>>
           /\ IsThePageItself(mergedInvoices[g], pagesWithOcr[k])

\* Witness of C14: three adjacent pages of one party, the middle one with no
\* signal around it, assembled into three documents
SingletonWitness ==
  /\ pc = "done"
  /\ Len(pagesWithOcr) = 3
  /\ \A k \in 1..2 : /\ isConsecutivePage(pagesWithOcr[k + 1].ocr, pagesWithOcr[k].ocr)
                     /\ isSameVendor(pagesWithOcr[k + 1].ocr.vendor_name,
                                     pagesWithOcr[k].ocr.vendor_name)
  /\ NoSignalAround(2)
  /\ Len(mergedInvoices) = 3

\* The input with the rows that have no payload taken out
RowsWithPayload == SelectSeq(rows, LAMBDA r : r.OCR # NULL)

\* C15: a row whose payload could not be parsed or repaired has a null
\* payload and is left out of assembly: it is in no group, and the groups
\* processInvoices returns are those of the input without the row
UnparsedRowsDropped ==
  /\ \A g \in 1..Len(AllGroups) : \A m \in 1..Len(AllGroups[g]) :
       /\ AllGroups[g][m].ocr # NULL
       /\ rows[AllGroups[g][m].row].OCR # NULL
  /\ pc = "group" => pagesWithOcr = sortBySourcePage(filterValidOcr(RowsWithPayload))
  /\ pc = "merge" =>
       /\ invoiceGroups = processInvoices(rows)
       /\ invoiceGroups = processInvoices(RowsWithPayload)

\* Witness of C15: the row between two rows had no payload, and the two were
\* assembled into one document
UnparsedRowWitness ==
  /\ pc = "done"
  /\ Len(rows) = 3
  /\ rows[2].OCR = NULL
  /\ Len(invoiceGroups) = 1
  /\ Len(invoiceGroups[1]) = 2
  /\ Len(mergedInvoices) = 1

\* processInvoices is at a page with a group open
GroupServing == pc = "group" /\ i <= Len(pagesWithOcr) /\ currentGroup # <<>>

\* An override of the code fires for the page
overrideFires(currentOcr, prevOcr, firstOcr) ==
  \/ overrideChain(currentOcr, prevOcr, firstOcr)
  \/ overrideVendor(currentOcr, firstOcr)
  \/ overrideNonConsecutive(currentOcr, prevOcr)

\* A folio page adjacent to the previous page, of the party of the group
\* head, with the head's business code and no identifier of its own
FolioSharesCode(currentOcr, prevOcr, firstOcr) ==
  /\ isFolioPage(currentOcr)
  /\ isConsecutivePage(currentOcr, prevOcr)
  /\ isSameVendor(currentOcr.vendor_name, firstOcr.vendor_name)
  /\ currentOcr.bu_code # ""
  /\ currentOcr.bu_code = firstOcr.bu_code
  /\ currentOcr.vendor_id = ""

\* The step appends the page under examination to the open group
PageAppended ==
  \/ currentGroup' = Append(currentGroup, pagesWithOcr[i])
  \/ invoiceGroups' = Append(invoiceGroups, Append(currentGroup, pagesWithOcr[i]))

\* C16: a folio page that shares business_code with the head of the open
\* group (adjacent to the previous page, same party as the head, no
\* identifier of its own) is appended to the group unless an override fires,
\* whether or not the head is a header page
FolioSharingCodeAppended ==
  [][ ( /\ GroupServing
        /\ FolioSharesCode(pagesWithOcr[i].ocr, currentGroup[Len(currentGroup)].ocr,
                           currentGroup[1].ocr)
        /\ ~overrideFires(pagesWithOcr[i].ocr, currentGroup[Len(currentGroup)].ocr,
                          currentGroup[1].ocr) )
      => PageAppended ]_vars

\* The same behind a group head that is a header page
FolioBehindHeaderAppended ==
  [][ ( /\ GroupServing
        /\ isHeaderPage(currentGroup[1].ocr)
        /\ FolioSharesCode(pagesWithOcr[i].ocr, currentGroup[Len(currentGroup)].ocr,
                           currentGroup[1].ocr)
        /\ ~overrideFires(pagesWithOcr[i].ocr, currentGroup[Len(currentGroup)].ocr,
                          currentGroup[1].ocr) )
      => PageAppended ]_vars

\* The page after the one under examination is adjacent to it, of the party
\* of the group head, and an effective continuation or a folio page with the
\* head's business code and no identifier of its own
NextKeepsOpen ==
  /\ i + 1 <= Len(pagesWithOcr)
  /\ LET nextOcr == pagesWithOcr[i + 1].ocr
         firstOcr == currentGroup[1].ocr
     IN /\ nextOcr.meta_source_page = pagesWithOcr[i].ocr.meta_source_page + 1
        /\ isSameVendor(nextOcr.vendor_name, firstOcr.vendor_name)
        /\ \/ isEffectiveContinuationPage(nextOcr)
           \/ /\ isFolioPage(nextOcr)
              /\ nextOcr.bu_code # ""
              /\ nextOcr.bu_code = firstOcr.bu_code
              /\ nextOcr.vendor_id = ""

GroupStaysOpen ==
  /\ currentGroup' = Append(currentGroup, pagesWithOcr[i])
  /\ invoiceGroups' = invoiceGroups

GroupClosedAtPage ==
  /\ invoiceGroups' = Append(invoiceGroups, Append(currentGroup, pagesWithOcr[i]))
  /\ currentGroup' = <<>>

\* C17: the lookahead rule: when a page appended to the open group carries a
\* positive grand total and is not an effective continuation, the group is
\* closed at that page unless the next page is adjacent, of the party of the
\* group head, and an effective continuation or a folio page with the head's
\* business_code and no identifier of its own, in which case the group stays
\* open; a page appended without a positive grand total, or that is an
\* effective continuation, never closes the group
LookaheadRule ==
  [][ (GroupServing /\ PageAppended) =>
        IF /\ hasPositiveGrandTotal(pagesWithOcr[i].ocr)
           /\ ~isEffectiveContinuationPage(pagesWithOcr[i].ocr)
          THEN IF NextKeepsOpen THEN GroupStaysOpen ELSE GroupClosedAtPage
          ELSE GroupStaysOpen ]_vars

\* Witness of C17: a page with a positive grand total that is no effective
\* continuation was appended, and the next page kept the group open
LookaheadWitness ==
  /\ pc = "group"
  /\ i <= Len(pagesWithOcr)
  /\ Len(currentGroup) >= 2
  /\ currentGroup[Len(currentGroup)] = pagesWithOcr[i - 1]
  /\ hasPositiveGrandTotal(pagesWithOcr[i - 1].ocr)
  /\ ~isEffectiveContinuationPage(pagesWithOcr[i - 1].ocr)

\* A header page as the specification states it: identifier, business code
\* and date present, not declared a continuation
IsHeaderAsStated(ocr) ==
  /\ ocr.vendor_id # ""
  /\ ocr.bu_code # ""
  /\ ocr.invoice_date # <<>>
  /\ ~ocr.meta_is_continuation_page

\* C18: in every group the assembler holds, a header page can only be the
\* first member
HeaderOnlyAtHead ==
  \A g \in 1..Len(AllGroups) : \A k \in 2..Len(AllGroups[g]) :
    ~IsHeaderAsStated(AllGroups[g][k].ocr)

\* Witness of C18: a header page for which a merge signal fired against the
\* open group, which no grand total had closed, opened a group of its own
HeaderWitness ==
  /\ pc = "group"
  /\ Len(invoiceGroups) >= 1
  /\ Len(currentGroup) = 1
  /\ IsHeaderAsStated(currentGroup[1].ocr)
  /\ LET before == invoiceGroups[Len(invoiceGroups)]
     IN /\ ~hasPositiveGrandTotal(before[Len(before)].ocr)
        /\ mergeSignal(currentGroup[1].ocr, before[Len(before)].ocr, before[1].ocr)

\* The members of a group that carry a positive grand total, by position
QualifyingMembers(group) ==
  {k \in 1..Len(group) : hasPositiveGrandTotal(group[k].ocr)}

\* The member the specification names: the largest positive total among the
\* members with a grand total, the earliest on a tie, and the first page
\* when no member qualifies
StatedTotalMember(group) ==
  LET qual == QualifyingMembers(group)
  IN IF qual = {} THEN 1
     ELSE CHOOSE k \in qual :
            \A j \in qual :
              \/ group[k].ocr.invoice_total > group[j].ocr.invoice_total
              \/ group[k].ocr.invoice_total = group[j].ocr.invoice_total /\ k <= j

\* C19: for a multi-page group the reconciled total and financial fields are
\* those of the member with the largest positive total among the members
\* with has_grand_total, the earliest such member on a tie, and those of the
\* first page when no member qualifies
TotalFromLargestMember ==
  pc = "done" =>
    \A g \in 1..Len(invoiceGroups) :
      Len(invoiceGroups[g]) > 1 =>
        LET from == invoiceGroups[g][StatedTotalMember(invoiceGroups[g])].ocr
        IN /\ mergedInvoices[g].invoice_total = from.invoice_total
           /\ mergedInvoices[g].amount_due = from.amount_due

\* Witness of C19: a group was assembled in which a later member carries a
\* larger positive grand total than an earlier one
LargestTotalWitness ==
  pc = "done" /\ \E g \in 1..Len(invoiceGroups) :
    \E j, k \in QualifyingMembers(invoiceGroups[g]) :
      j < k /\ invoiceGroups[g][j].ocr.invoice_total < invoiceGroups[g][k].ocr.invoice_total

\* The tie: a group was assembled in which two members carry the same
\* largest total and differ in another financial field
TotalTieReached ==
  pc = "done" /\ \E g \in 1..Len(invoiceGroups) :
    \E j, k \in QualifyingMembers(invoiceGroups[g]) :
      /\ j < k
      /\ StatedTotalMember(invoiceGroups[g]) = j
      /\ invoiceGroups[g][j].ocr.invoice_total = invoiceGroups[g][k].ocr.invoice_total
      /\ invoiceGroups[g][j].ocr.amount_due # invoiceGroups[g][k].ocr.amount_due

\* The value of field f on the first member, in page order, that carries a
\* value for it; empty when no member does
FirstCarried(group, f) ==
  LET carriers == {k \in 1..Len(group) : group[k].ocr[f] # ""}
  IN IF carriers = {} THEN ""
     ELSE group[CHOOSE k \in carriers : \A j \in carriers : k <= j].ocr[f]

\* C20: for a multi-page group, each header field (party_identifier,
\* business_code) of the assembled document is the value of the first
\* member, in page order, that carries a value for that field, and is empty
\* only if no member carries one
HeaderFieldsFromFirstCarrier ==
  pc = "done" =>
    \A g \in 1..Len(invoiceGroups) :
      Len(invoiceGroups[g]) > 1 =>
        /\ mergedInvoices[g].vendor_id = FirstCarried(invoiceGroups[g], "vendor_id")
        /\ mergedInvoices[g].bu_code = FirstCarried(invoiceGroups[g], "bu_code")

\* What the code does: every header field comes from the first member that
\* carries any header field, and from the page of the total when that member
\* has no value for it
HeaderFieldsFromHeaderPage ==
  pc = "done" =>
    \A g \in 1..Len(invoiceGroups) :
      Len(invoiceGroups[g]) > 1 =>
        LET group == invoiceGroups[g]
            carriers == {k \in 1..Len(group) :
                           group[k].ocr.vendor_id # "" \/ group[k].ocr.bu_code # ""}
            header == IF carriers = {} THEN group[1].ocr
                      ELSE group[CHOOSE k \in carriers : \A j \in carriers : k <= j].ocr
            total == group[StatedTotalMember(group)].ocr
        IN /\ mergedInvoices[g].vendor_id
                = IF header.vendor_id # "" THEN header.vendor_id ELSE total.vendor_id
           /\ mergedInvoices[g].bu_code
                = IF header.bu_code # "" THEN header.bu_code ELSE total.bu_code

\* ------------------------------------------------------------------------
\* Service period of a multi-page document (createMergedInvoice)
\* ------------------------------------------------------------------------
MaxMembers == 3

\* UTF-16 code units of the characters of a date text
CharCode ==
  [c \in {"-"} \cup Digits |->
     CASE c = "-" -> 45 [] c = "0" -> 48 [] c = "1" -> 49 [] c = "2" -> 50
       [] c = "3" -> 51 [] c = "4" -> 52 [] c = "5" -> 53 [] c = "6" -> 54
       [] c = "7" -> 55 [] c = "8" -> 56 [] c = "9" -> 57]

\* The order Array.prototype.sort() puts strings in: by code units, a proper
\* prefix first
RECURSIVE stringLess(_, _)
stringLess(a, b) ==
  IF b = <<>> THEN FALSE
  ELSE IF a = <<>> THEN TRUE
  ELSE IF Head(a) # Head(b) THEN CharCode[Head(a)] < CharCode[Head(b)]
  ELSE stringLess(Tail(a), Tail(b))

\* Insertion of one string into a sorted array, behind its equals
RECURSIVE InsertString(_, _)
InsertString(x, sorted) ==
  IF sorted = <<>> THEN <<x>>
  ELSE IF stringLess(x, Head(sorted)) THEN <<x>> \o sorted
  ELSE <<Head(sorted)>> \o InsertString(x, Tail(sorted))

\* .sort() of an array of strings
RECURSIVE sortStrings(_)
sortStrings(a) ==
  IF a = <<>> THEN <<>>
  ELSE InsertString(a[Len(a)], sortStrings(SubSeq(a, 1, Len(a) - 1)))

\* pageOcrs.flatMap(o => [o?.service_start, o?.service_end]).filter(Boolean).sort()
serviceDatesOf(pageOcrs) ==
  sortStrings(SelectSeq(Flatten([k \in 1..Len(pageOcrs) |->
                                   <<pageOcrs[k].service_start, pageOcrs[k].service_end>>]),
                        LAMBDA d : d # <<>>))

\* service_start and service_end of the merged document, <<>> being null
mergedServicePeriod(pageOcrs) ==
  LET serviceDates == serviceDatesOf(pageOcrs)
  IN [service_start |-> IF serviceDates = <<>> THEN <<>> ELSE serviceDates[1],
      service_end |-> IF serviceDates = <<>> THEN <<>>
                      ELSE serviceDates[Len(serviceDates)]]

DATE_SEP_01 == <<"2","0","2","4","-","0","9","-","0","1">>
DATE_OCT_01 == <<"2","0","2","4","-","1","0","-","0","1">>

\* The service dates of the pages: absent, or one of three days
ServiceDateValues == {<<>>, DATE_SEP_01, DATE_ISO, DATE_OCT_01}

\* The pages of a group as far as their service period goes; a page that
\* carries both dates does not end before it starts
ServicePages ==
  {p \in [service_start : ServiceDateValues, service_end : ServiceDateValues] :
     (p.service_start # <<>> /\ p.service_end # <<>>)
        => ~stringLess(p.service_end, p.service_start)}

\* createMergedInvoice is about to merge a group of two pages or more
ServiceInit ==
  /\ \E n \in 2..MaxMembers : fnIn \in [1..n -> ServicePages]
  /\ fnOut = <<>>
  /\ fnPc = "call"
  /\ AssemblerIdle
  /\ MatcherIdle

\* The multi-page branch of createMergedInvoice computes the service period
MergeServicePeriod ==
  /\ fnPc = "call"
  /\ fnOut' = <<mergedServicePeriod(fnIn)>>
  /\ fnPc' = "return"
  /\ UNCHANGED <<fnIn, asmVars, matchVars>>

ServiceNext == MergeServicePeriod

ServiceSpec == ServiceInit /\ [][ServiceNext]_vars

\* A date as a number of the calendar: yyyymmdd
DigitValue(c) == CharCode[c] - 48

DayNumber(d) ==
  LET v(k) == DigitValue(d[k])
  IN (v(1) * 1000 + v(2) * 100 + v(3) * 10 + v(4)) * 10000
     + (v(6) * 10 + v(7)) * 100 + v(9) * 10 + v(10)

\* The dates a field carries among the members of a group
DatesOfField(members, field) ==
  {members[k][field] : k \in 1..Len(members)} \ {<<>>}

\* The earliest and the latest day of a set of dates, <<>> when it is empty
EarliestOf(dates) ==
  IF dates = {} THEN <<>>
  ELSE CHOOSE d \in dates : \A e \in dates : DayNumber(d) <= DayNumber(e)

LatestOf(dates) ==
  IF dates = {} THEN <<>>
  ELSE CHOOSE d \in dates : \A e \in dates : DayNumber(d) >= DayNumber(e)

\* C21: the service_start of a multi-page document is the earliest
\* service_start among its members and its service_end the latest
\* service_end among its members, whichever dates are present or absent
ServicePeriodSpansMembers ==
  fnPc = "return" =>
    /\ fnOut[1].service_start = EarliestOf(DatesOfField(fnIn, "service_start"))
    /\ fnOut[1].service_end = LatestOf(DatesOfField(fnIn, "service_end"))

\* Counterexample of C21: the first page carries only a service_end, which
\* lies before the service_start of the second page
ServiceStartIsAnEnd ==
  /\ fnPc = "return"
  /\ Len(fnIn) = 2
  /\ fnIn[1] = [service_start |-> <<>>, service_end |-> DATE_SEP_01]
  /\ fnIn[2] = [service_start |-> DATE_ISO, service_end |-> DATE_OCT_01]
  /\ fnOut[1].service_start = DATE_SEP_01

\* ------------------------------------------------------------------------
\* Line items of a multi-page document (createMergedInvoice)
\* ------------------------------------------------------------------------
MaxItemPages == 2
MaxLineItems == 2

DigitChar == <<"0","1","2","3","4","5","6","7","8","9">>

\* String(n) of a natural number; amounts are in cents
RECURSIVE numberToString(_)
numberToString(n) ==
  IF n < 10 THEN <<DigitChar[n + 1]>>
  ELSE numberToString(n \div 10) \o <<DigitChar[(n % 10) + 1]>>

\* `${item.date || ''}|${item.description || ''}|${item.amount || 0}`
lineItemKey(item) ==
  item.date \o <<"|">> \o item.description \o <<"|">> \o numberToString(item.amount)

\* items.filter(...) with the Set of the keys seen so far
RECURSIVE filterUnseen(_, _)
filterUnseen(items, seen) ==
  IF items = <<>> THEN <<>>
  ELSE LET key == lineItemKey(Head(items))
       IN IF key \in seen THEN filterUnseen(Tail(items), seen)
          ELSE <<Head(items)>> \o filterUnseen(Tail(items), seen \cup {key})

deduplicateLineItems(items) == filterUnseen(items, {})

\* allLineItems: the line items of the pages that have any, page after page
allLineItemsOf(pageOcrs) ==
  Flatten([k \in 1..Len(pageOcrs) |-> pageOcrs[k].line_items])

mergedLineItemsOf(pageOcrs) == deduplicateLineItems(allLineItemsOf(pageOcrs))

\* Line items as the pages carry them: free text read off the page in date
\* and description (<<>> when absent), an amount in cents (0 when absent)
ItemDates == {<<>>, <<"d">>, <<"d","|","x">>}
ItemDescriptions == {<<>>, <<"x">>, <<"x","|","x">>}
ItemAmounts == {0, 500}
LineItems == [date : ItemDates, description : ItemDescriptions, amount : ItemAmounts]

LineItemLists ==
  UNION {[1..n -> LineItems] : n \in 0..MaxLineItems}

\* createMergedInvoice is about to merge a group of several pages
LineItemsInit ==
  /\ \E n \in 2..MaxItemPages :
       fnIn \in [1..n -> [line_items : LineItemLists]]
  /\ fnOut = <<>>
  /\ fnPc = "call"
  /\ AssemblerIdle
  /\ MatcherIdle

\* The multi-page branch of createMergedInvoice collects the line items
MergeLineItems ==
  /\ fnPc = "call"
  /\ fnOut' = <<mergedLineItemsOf(fnIn)>>
  /\ fnPc' = "return"
  /\ UNCHANGED <<fnIn, asmVars, matchVars>>

LineItemsNext == MergeLineItems

LineItemsSpec == LineItemsInit /\ [][LineItemsNext]_vars

\* The composite key of a line item
CompositeKey(item) == <<item.date, item.description, item.amount>>

\* C22: the line items of a multi-page document are the concatenation of
\* the members' line items deduplicated by (date, description, amount): no
\* two of them share a key, every key of the input is kept, they stand in
\* the order of their first occurrence, and deduplicating again changes
\* nothing
LineItemsDeduplicated ==
  fnPc = "return" =>
    LET input == allLineItemsOf(fnIn)
        out == fnOut[1]
        firsts == {k \in 1..Len(input) :
                     \A j \in 1..(k - 1) : CompositeKey(input[j]) # CompositeKey(input[k])}
    IN /\ \A a, b \in 1..Len(out) :
            a # b => CompositeKey(out[a]) # CompositeKey(out[b])
       /\ \A k \in 1..Len(input) : \E a \in 1..Len(out) :
            CompositeKey(out[a]) = CompositeKey(input[k])
       /\ Len(out) = Cardinality(firsts)
       /\ \A a \in 1..Len(out) :
            \E k \in firsts : /\ out[a] = input[k]
                              /\ Cardinality({j \in firsts : j < k}) = a - 1
       /\ deduplicateLineItems(out) = out

\* Two line items of different date and description whose keys are the
\* same text: the second one is dropped
SeparatorCollision ==
  /\ fnPc = "return"
  /\ Len(fnIn) = 2
  /\ fnIn[1].line_items =
       <<[date |-> <<"d","|","x">>, description |-> <<"x">>, amount |-> 500]>>
  /\ fnIn[2].line_items =
       <<[date |-> <<"d">>, description |-> <<"x","|","x">>, amount |-> 500]>>
  /\ Len(fnOut[1]) = 1

\* ------------------------------------------------------------------------
\* The page classifiers applied to one page
\* ------------------------------------------------------------------------
STR_UNKNOWN_UPPER == <<"U","N","K","N","O","W","N">>

\* Every combination of the fields the classifiers read
ClassifiedPages ==
  {Ocr(cont, date, num, vid, bu, vendor, FALSE, 0, "LODGING") :
     cont \in BOOLEAN,
     date \in {<<>>, DATE_NULL, DATE_PLACEHOLDER, DATE_ISO},
     num \in {<<>>, NA, STR_NULL, STR_STRING, STR_UNKNOWN, INV1, FOLIO},
     vid \in {"", "V1"},
     bu \in {"", "B1"},
     vendor \in {<<>>, STR_UNKNOWN, STR_UNKNOWN_CAP, STR_UNKNOWN_UPPER, ACME}}

\* processInvoices is about to classify a page
ClassifyInit ==
  /\ fnIn \in ClassifiedPages
  /\ fnOut = <<>>
  /\ fnPc = "call"
  /\ AssemblerIdle
  /\ MatcherIdle

\* The three classifiers of processInvoices on the page
ClassifyPage ==
  /\ fnPc = "call"
  /\ fnOut' = <<[isEffectiveContinuation |-> isEffectiveContinuationPage(fnIn),
                 isHeader |-> isHeaderPage(fnIn),
                 isFolio |-> isFolioPage(fnIn)]>>
  /\ fnPc' = "return"
  /\ UNCHANGED <<fnIn, asmVars, matchVars>>

ClassifyNext == ClassifyPage

ClassifySpec == ClassifyInit /\ [][ClassifyNext]_vars

\* The three conditions as the rule names them.  A date is missing when the
\* page carries none: the field is absent or holds one of the texts that
\* stand in for a date ('null', 'YYYY-MM-DD').  A document number is a
\* placeholder when it is 'N/A', 'null', 'string' or 'unknown'.  A party is
\* unknown when its name is absent, 'unknown' or 'Unknown'.
DeclaredContinuation(p) == p.meta_is_continuation_page

DateMissing(p) == p.invoice_date \in {<<>>, DATE_NULL, DATE_PLACEHOLDER}

NumberMissingOrPlaceholder(p) ==
  p.invoice_number \in {<<>>, NA, STR_NULL, STR_STRING, STR_UNKNOWN}

MissingDateRule(p) ==
  DateMissing(p) /\ (NumberMissingOrPlaceholder(p) \/ p.vendor_id = "")

UnknownPartyRule(p) ==
  /\ p.vendor_name \in {<<>>, STR_UNKNOWN, STR_UNKNOWN_CAP}
  /\ DateMissing(p)
  /\ p.vendor_id = ""
  /\ p.bu_code = ""

\* C23: a page is an effective continuation exactly when it is declared a
\* continuation, or its date is missing and its number is missing or a
\* placeholder or its party identifier is missing, or its party is unknown
\* and date, identifier and business code are all missing; and the third
\* condition never changes the result the first two give
EffectiveContinuationAsStated ==
  fnPc = "return" =>
    /\ fnOut[1].isEffectiveContinuation =
         (DeclaredContinuation(fnIn) \/ MissingDateRule(fnIn) \/ UnknownPartyRule(fnIn))
    /\ fnOut[1].isEffectiveContinuation =
         (DeclaredContinuation(fnIn) \/ MissingDateRule(fnIn))

\* Witness of C23: an undeclared page of an unknown party without date,
\* identifier and business code, which both rules make a continuation
UnknownPartyWitness ==
  /\ fnPc = "return"
  /\ ~DeclaredContinuation(fnIn)
  /\ UnknownPartyRule(fnIn)
  /\ fnIn.invoice_number = INV1
  /\ fnOut[1].isEffectiveContinuation

\* C27: no page is both a header page and an effective continuation,
\* whatever stands in its date and its number
NeverHeaderAndContinuation ==
  fnPc = "return" => ~(fnOut[1].isHeader /\ fnOut[1].isEffectiveContinuation)

\* The page on which C27 fails: identifier, business code and the
\* placeholder date, no document number
PlaceholderDateHeader ==
  /\ fnPc = "return"
  /\ fnIn = Ocr(FALSE, DATE_PLACEHOLDER, <<>>, "V1", "B1", ACME, FALSE, 0, "LODGING")
  /\ fnOut[1].isHeader
  /\ fnOut[1].isEffectiveContinuation

\* The equality Pass 2 pairs on: the document's normalized party name is the
\* entry's up to case, both normalized dates are the same resolvable date,
\* and total and debit are the same number of cents
PartyDateAmountEqual(e, d) ==
  /\ normalizeDate(e.invoice_date) # <<>>
  /\ toUpperCase(normalizeVendorForLedgerMatch(d.vendor_name)) = toUpperCase(e.vendor_name)
  /\ normalizeDate(d.invoice_date) = normalizeDate(e.invoice_date)
  /\ toCents(d.invoice_total) = toCents(e.debit)

\* The pools of Pass 2 stand in input order: the entries by their ledger
\* row, the unmatched documents by their first source row
PoolsInInputOrder ==
  /\ \A a, b \in 1..Len(pass2Ledger) :
       a < b => pass2Ledger[a]._raw_ledger_row < pass2Ledger[b]._raw_ledger_row
  /\ \A a, b \in 1..Len(unmatchedOcr) :
       a < b => unmatchedOcr[a].all_source_rows[1] < unmatchedOcr[b].all_source_rows[1]

\* Every match of Pass 1 stands before every match of Pass 2
Pass1MatchesFirst ==
  \A a, b \in 1..Len(matches) :
    a < b => ~(/\ matches[a].matchInfo.type = "vendor_date_amount"
               /\ matches[b].matchInfo.type = "invoice_number")

\* C24: Pass 2 is greedy and order-determined.  The entries are served in
\* ledger input order; each is paired with the first document, in document
\* input order among those still unmatched, that agrees in party, date and
\* amount in cents; the pair leaves both pools before the next entry is
\* served; and no Pass 2 match is recorded before every Pass 1 match
Pass2GreedyInOrder ==
  [][ /\ Pass1MatchesFirst'
      /\ (mpc' = "pass2" => PoolsInInputOrder')
      /\ Pass2Serving =>
           LET e == pass2Ledger[ledgerIdx]
               fits == {k \in 1..Len(unmatchedOcr) :
                          PartyDateAmountEqual(e, unmatchedOcr[k])}
           IN /\ ledgerIdx' = ledgerIdx + 1
              /\ pass2Ledger' = pass2Ledger
              /\ IF fits = {}
                 THEN /\ matches' = matches
                      /\ unmatchedOcr' = unmatchedOcr
                      /\ unmatchedLedger' = unmatchedLedger
                 ELSE LET first == CHOOSE k \in fits : \A j \in fits : k <= j
                      IN /\ Len(matches') = Len(matches) + 1
                         /\ SubSeq(matches', 1, Len(matches)) = matches
                         /\ matches'[Len(matches')].ledger = e
                         /\ matches'[Len(matches')].ocr = unmatchedOcr[first]
                         /\ matches'[Len(matches')].matchInfo.type = "vendor_date_amount"
                         /\ unmatchedOcr' =
                              SubSeq(unmatchedOcr, 1, first - 1)
                                \o SubSeq(unmatchedOcr, first + 1, Len(unmatchedOcr))
                         /\ unmatchedLedger' = SelectSeq(unmatchedLedger, LAMBDA l : l # e)
                         /\ e \in Range(unmatchedLedger) ]_vars

\* Witness of C24: Pass 2 paired an entry with the first of two documents
\* that both agreed with it, the second one staying in the pool
GreedyWitness ==
  /\ mpc = "pass2"
  /\ Len(matches) = 1
  /\ matches[1].matchInfo.type = "vendor_date_amount"
  /\ matches[1].ocr.all_source_rows = <<1>>
  /\ Len(unmatchedOcr) = 1
  /\ unmatchedOcr[1].all_source_rows = <<2>>
  /\ PartyDateAmountEqual(matches[1].ledger, unmatchedOcr[1])

\* ------------------------------------------------------------------------
\* parseOCR: the payload embedded in a cell of data.csv
\* ------------------------------------------------------------------------
MaxBlobTokens == 5

\* The index behind the run of characters of `set` that starts at k
RECURSIVE runEnd(_, _, _)
runEnd(s, k, set) ==
  IF k <= Len(s) /\ s[k] \in set THEN runEnd(s, k + 1, set) ELSE k

startsWithAt(s, k, prefix) ==
  /\ k + Len(prefix) - 1 <= Len(s)
  /\ SubSeq(s, k, k + Len(prefix) - 1) = prefix

\* replace(/^Image \d+ of \d+\s*\n?/i, '')
stripImagePrefix(s) ==
  LET image == <<"i","m","a","g","e"," ">>
      of == <<" ","o","f"," ">>
      low == toLowerCase(s)
      d1 == runEnd(s, 7, Digits)
      d2 == runEnd(s, d1 + 4, Digits)
  IN IF /\ startsWithAt(low, 1, image)
        /\ d1 > 7
        /\ startsWithAt(low, d1, of)
        /\ d2 > d1 + 4
       THEN SubSeq(s, runEnd(s, d2, Whitespace), Len(s))
       ELSE s

\* The code fence, three grave accents; the grave accent is written "~" here
FENCE == <<"~","~","~">>
FENCE_JSON == <<"~","~","~","j","s","o","n">>

\* The first replace of the code fences: an opening fence marked json and the
\* line break behind it, everywhere in the text
RECURSIVE stripJsonFences(_)
stripJsonFences(s) ==
  IF s = <<>> THEN <<>>
  ELSE IF startsWithAt(s, 1, FENCE_JSON)
    THEN LET rest == SubSeq(s, Len(FENCE_JSON) + 1, Len(s))
         IN stripJsonFences(IF rest # <<>> /\ Head(rest) = "\n" THEN Tail(rest) ELSE rest)
    ELSE <<Head(s)>> \o stripJsonFences(Tail(s))

\* The second replace of the code fences: every remaining fence
RECURSIVE stripFences(_)
stripFences(s) ==
  IF s = <<>> THEN <<>>
  ELSE IF startsWithAt(s, 1, FENCE)
    THEN stripFences(SubSeq(s, Len(FENCE) + 1, Len(s)))
    ELSE <<Head(s)>> \o stripFences(Tail(s))

\* The text parseOCR works on: prefix and code fences removed, trimmed
cleanedOf(ocrField) == trim(stripFences(stripJsonFences(stripImagePrefix(ocrField))))

\* JSON.parse on the texts of the model: a value is a number written with
\* the digit 1 or an object whose members all have the key "a"; white space
\* may stand between the tokens.  A failed parse is the exception JSON.parse
\* throws.  Of two members of an object the last one stays.
KEY == <<"\"","a","\"">>
ParseFailure == [ok |-> FALSE, next |-> 0, val |-> <<>>]

RECURSIVE parseValue(_, _)
RECURSIVE parseMembers(_, _)
parseValue(s, k0) ==
  LET k == runEnd(s, k0, Whitespace)
  IN IF k > Len(s) THEN ParseFailure
     ELSE IF s[k] = "1"
       THEN LET e == runEnd(s, k, {"1"})
            IN [ok |-> TRUE, next |-> e, val |-> [number |-> SubSeq(s, k, e - 1)]]
     ELSE IF s[k] = "{"
       THEN LET k1 == runEnd(s, k + 1, Whitespace)
            IN IF k1 <= Len(s) /\ s[k1] = "}"
                 THEN [ok |-> TRUE, next |-> k1 + 1, val |-> [object |-> <<>>]]
                 ELSE parseMembers(s, k1)
     ELSE ParseFailure

parseMembers(s, k) ==
  IF ~startsWithAt(s, k, KEY) THEN ParseFailure
  ELSE LET colon == runEnd(s, k + Len(KEY), Whitespace)
       IN IF colon > Len(s) \/ s[colon] # ":" THEN ParseFailure
          ELSE LET v == parseValue(s, colon + 1)
               IN IF ~v.ok THEN ParseFailure
                  ELSE LET j == runEnd(s, v.next, Whitespace)
                       IN IF j > Len(s) THEN ParseFailure
                          ELSE IF s[j] = "}"
                            THEN [ok |-> TRUE, next |-> j + 1,
                                  val |-> [object |-> <<v.val>>]]
                          ELSE IF s[j] = ","
                            THEN parseMembers(s, runEnd(s, j + 1, Whitespace))
                          ELSE ParseFailure

\* JSON.parse(text): the value, or NULL for the exception
jsonParse(text) ==
  LET v == parseValue(text, 1)
  IN IF v.ok /\ runEnd(text, v.next, Whitespace) > Len(text) THEN v.val ELSE NULL

countOf(s, c) == Cardinality({k \in 1..Len(s) : s[k] = c})

\* cleaned.lastIndexOf('}'), 0-based, -1 when there is none
lastIndexOfBrace(s) ==
  LET at == {k \in 1..Len(s) : s[k] = "}"}
  IN IF at = {} THEN -1 ELSE (CHOOSE k \in at : \A j \in at : j <= k) - 1

\* cleaned.substring(0, lastBrace + 1) followed by the missing closing
\* braces; '}'.repeat of a negative count throws, which parseOCR catches
repairOf(cleaned) ==
  LET truncated == SubSeq(cleaned, 1, lastIndexOfBrace(cleaned) + 1)
      missing == countOf(truncated, "{") - countOf(truncated, "}")
  IN IF missing < 0 THEN <<>>
     ELSE truncated \o [k \in 1..missing |-> "}"]

parseOCR(ocrField) ==
  IF ocrField = <<>> THEN NULL
  ELSE LET cleaned == cleanedOf(ocrField)
       IN IF cleaned # <<>> /\ cleaned[Len(cleaned)] = "}"
            THEN jsonParse(cleaned)
            ELSE IF lastIndexOfBrace(cleaned) > 0
                   THEN jsonParse(repairOf(cleaned))
                   ELSE jsonParse(cleaned)

\* The cells of the model: up to MaxBlobTokens tokens of JSON text, bare,
\* behind the image prefix, inside a code fence, or both
BlobTokens == {<<"{">>, <<"}">>, <<",">>, KEY \o <<":">>, <<"1">>}

BlobBodies ==
  {Flatten(ts) : ts \in UNION {[1..n -> BlobTokens] : n \in 0..MaxBlobTokens}}

IMAGE_PREFIX == <<"I","m","a","g","e"," ","1"," ","o","f"," ","2","\n">>

Blobs ==
  {pre \o body :
     pre \in {<<>>, IMAGE_PREFIX},
     body \in BlobBodies}
  \cup
  {pre \o FENCE_JSON \o <<"\n">> \o body \o <<"\n">> \o FENCE :
     pre \in {<<>>, IMAGE_PREFIX},
     body \in BlobBodies}

\* A row of data.csv is about to be parsed
ParseInit ==
  /\ fnIn \in Blobs
  /\ fnOut = <<>>
  /\ fnPc = "call"
  /\ AssemblerIdle
  /\ MatcherIdle

ParseCell ==
  /\ fnPc = "call"
  /\ fnOut' = <<parseOCR(fnIn)>>
  /\ fnPc' = "return"
  /\ UNCHANGED <<fnIn, asmVars, matchVars>>

ParseNext == ParseCell

ParseSpec == ParseInit /\ [][ParseNext]_vars

\* The repair as the rule states it: the text up to its last closing brace,
\* followed by one closing brace for every opening brace left unmatched; a
\* text without a closing brace has nothing to be truncated to and stays
StatedRepair(text) ==
  LET closing == {k \in 1..Len(text) : text[k] = "}"}
  IN IF closing = {} THEN text
     ELSE LET kept == SubSeq(text, 1, CHOOSE k \in closing : \A j \in closing : j <= k)
              open == countOf(kept, "{")
              closed == countOf(kept, "}")
          IN kept \o [k \in 1..(IF open > closed THEN open - closed ELSE 0) |-> "}"]

WellFormed(text) == jsonParse(text) # NULL

\* C25: a blob that is not well-formed once prefix and code fences are
\* stripped, and that the repair would make well-formed, yields a payload,
\* whatever character it ends with
TruncatedBlobRepaired ==
  fnPc = "return" =>
    LET text == cleanedOf(fnIn)
    IN (~WellFormed(text) /\ WellFormed(StatedRepair(text))) => fnOut[1] # NULL

\* A truncated blob that ends in a comma, which parseOCR repairs
RepairReached ==
  /\ fnPc = "return"
  /\ cleanedOf(fnIn) = <<"{">> \o KEY \o <<":","{","}",",">>
  /\ fnOut[1] = [object |-> <<[object |-> <<>>]>>]

\* A truncated blob that ends in a closing brace, which parseOCR gives up
TruncatedAfterBrace ==
  /\ fnPc = "return"
  /\ fnIn = IMAGE_PREFIX \o FENCE_JSON \o <<"\n","{">> \o KEY \o <<":","{","}","\n">> \o FENCE
  /\ fnOut[1] = NULL

\* ------------------------------------------------------------------------
\* normalizeInvoiceNumber applied to one number, and again to its result
\* ------------------------------------------------------------------------
MaxNumberLen == 4

\* Invoice numbers over digits, letters and white space
NumberChars == {"0", "1", "a", "A", " "}

NumberTexts == UNION {[1..n -> NumberChars] : n \in 0..MaxNumberLen}

\* Pass 1 is about to normalize an invoice number
NormalizeInit ==
  /\ fnIn \in NumberTexts
  /\ fnOut = <<>>
  /\ fnPc = "call"
  /\ AssemblerIdle
  /\ MatcherIdle

\* normalizeInvoiceNumber, applied to the number and then to what it returned
NormalizeNumber ==
  /\ fnPc \in {"call", "return"}
  /\ Len(fnOut) < 2
  /\ fnOut' = Append(fnOut, normalizeInvoiceNumber(IF fnOut = <<>> THEN fnIn
                                                   ELSE fnOut[Len(fnOut)]))
  /\ fnPc' = "return"
  /\ UNCHANGED <<fnIn, asmVars, matchVars>>

NormalizeNext == NormalizeNumber

NormalizeSpec == NormalizeInit /\ [][NormalizeNext]_vars

\* C28: normalizeInvoiceNumber is idempotent: normalizing a number that is
\* already normalized returns it unchanged, for every text over digits,
\* letters and white space
NormalizeIdempotent ==
  Len(fnOut) = 2 => fnOut[2] = fnOut[1]

\* The number '0 1': the zero is stripped after the trim, and the blank it
\* uncovers is trimmed only by the second application
BlankBehindZeros ==
  /\ fnIn = <<"0", " ", "1">>
  /\ fnOut = << <<" ", "1">>, <<"1">> >>

\* ------------------------------------------------------------------------
\* The corrections script: processOcrInvoices on ocr-invoices.json
\* ------------------------------------------------------------------------
MaxInvoices == 3

VENDOR_ID_MAPPINGS_KEYS == {"722605697", "51022"}
VENDOR_ID_MAPPINGS ==
  [id \in VENDOR_ID_MAPPINGS_KEYS |-> IF id = "722605697" THEN "12122" ELSE "19083"]

\* VENDOR_NAME_MAPPINGS as its pairs of name and standard name
VENDOR_NAME_MAPPINGS ==
  {
<<<<"G","o","r","d","o","n"," ","F","o","o","d"," ","S","e","r","v","i","c","e"," ","S","t","o","r","e">>,
     <<"G","o","r","d","o","n"," ","F","o","o","d"," ","S","e","r","v","i","c","e"," ","I","n","c",".">>>>,
   <<<<"G","o","r","d","o","n"," ","F","o","o","d"," ","S","e","r","v","i","c","e"," ","I","n","c",".">>,
     <<"G","o","r","d","o","n"," ","F","o","o","d"," ","S","e","r","v","i","c","e"," ","I","n","c",".">>>>,
   <<<<"\"","G","o","r","d","o","n"," ","F","o","o","d"," ","S","e","r","v","i","c","e",","," ","I","n","c",".","\"">>,
     <<"G","o","r","d","o","n"," ","F","o","o","d"," ","S","e","r","v","i","c","e"," ","I","n","c",".">>>>,
   <<<<"T","h","e"," ","A","v","e">>,
     <<"T","h","e"," ","A","v","e"," ","(","C","a","s","t","e","l","l","o"," ","E","q","u","i","t","y"," ","P","a","r","t","n","e","r","s",")">>>>,
   <<<<"C","a","s","t","e","l","l","o"," ","E","q","u","i","t","y"," ","P","a","r","t","n","e","r","s">>,
     <<"T","h","e"," ","A","v","e"," ","(","C","a","s","t","e","l","l","o"," ","E","q","u","i","t","y"," ","P","a","r","t","n","e","r","s",")">>>>,
   <<<<"T","h","e"," ","A","v","e"," ","N","a","s","h","v","i","l","l","e"," ","L","L","C">>,
     <<"T","h","e"," ","A","v","e"," ","(","C","a","s","t","e","l","l","o"," ","E","q","u","i","t","y"," ","P","a","r","t","n","e","r","s",")">>>>,
   <<<<"T","H","E"," ","A","V","E"," ","N","A","S","H","V","I","L","L","E"," ","L","L","C">>,
     <<"T","h","e"," ","A","v","e"," ","(","C","a","s","t","e","l","l","o"," ","E","q","u","i","t","y"," ","P","a","r","t","n","e","r","s",")">>>>,
   <<<<"H","i","l","l","s","i","d","e"," ","C","r","o","s","s","i","n","g"," ","L","L","C">>,
     <<"H","i","l","l","s","i","d","e"," ","C","r","o","s","s","i","n","g"," ","H","o","t","e","l">>>>,
   <<<<"H","I","L","L","S","I","D","E"," ","C","R","O","S","S","I","N","G"," ","L","L","C">>,
     <<"H","i","l","l","s","i","d","e"," ","C","r","o","s","s","i","n","g"," ","H","o","t","e","l">>>>,
   <<<<"H","i","l","l","s","i","d","e"," ","C","r","o","s","s","i","n","g"," ","H","o","t","e","l">>,
     <<"H","i","l","l","s","i","d","e"," ","C","r","o","s","s","i","n","g"," ","H","o","t","e","l">>>>,
   <<<<"R","J"," ","Y","o","u","n","g">>,
     <<"R","J"," ","Y","o","u","n","g">>>>,
   <<<<"R",".","J","."," ","Y","o","u","n","g">>,
     <<"R","J"," ","Y","o","u","n","g">>>>,
   <<<<"R","o","b","e","r","t"," ","J"," ","Y","o","u","n","g"," ","C","o","m","p","a","n","y">>,
     <<"R","J"," ","Y","o","u","n","g">>>>,
   <<<<"R","J"," ","Y","o","u","n","g"," ","C","o","m","p","a","n","y"," ","L","L","C">>,
     <<"R","J"," ","Y","o","u","n","g">>>>,
   <<<<"R","a","n","d","s","t","a","d"," ","N","o","r","t","h"," ","A","m","e","r","i","c","a"," ","I","n","c"," ","d","b","a"," ","R","a","n","d","s","t","a","d"," ","U","S","A"," ","L","L","C">>,
     <<"R","a","n","d","s","t","a","d">>>>,
   <<<<"R","a","n","d","s","t","a","d">>,
     <<"R","a","n","d","s","t","a","d">>>>,
   <<<<"E","S","A"," ","M","a","n","a","g","e","m","e","n","t"," ","L",".","L",".","C",".">>,
     <<"E","x","t","e","n","d","e","d"," ","S","t","a","y"," ","A","m","e","r","i","c","a">>>>,
   <<<<"E","S","A"," ","M","A","N","A","G","E","M","E","N","T"," ","L","L","C">>,
     <<"E","x","t","e","n","d","e","d"," ","S","t","a","y"," ","A","m","e","r","i","c","a">>>>,
   <<<<"E","x","t","e","n","d","e","d"," ","S","t","a","y"," ","A","m","e","r","i","c","a">>,
     <<"E","x","t","e","n","d","e","d"," ","S","t","a","y"," ","A","m","e","r","i","c","a">>>>,
   <<<<"G","r","e","e","n","v","i","e","w"," ","S","t","u","d","i","o","s">>,
     <<"G","r","e","e","n","v","i","e","w"," ","S","t","u","d","i","o","s"," ","L","L","C">>>>,
   <<<<"G","r","e","e","n","v","i","e","w"," ","S","t","u","d","i","o","s",","," ","L","L","C">>,
     <<"G","r","e","e","n","v","i","e","w"," ","S","t","u","d","i","o","s"," ","L","L","C">>>>,
   <<<<"9","7"," ","W","a","l","l","a","c","e"," ","S","t","u","d","i","o","s">>,
     <<"9","7"," ","W","a","l","l","a","c","e"," ","S","t","u","d","i","o","s"," ","L","L","C">>>>,
   <<<<"9","7"," ","W","a","l","l","a","c","e"," ","S","t","u","d","i","o","s",","," ","L","L","C">>,
     <<"9","7"," ","W","a","l","l","a","c","e"," ","S","t","u","d","i","o","s"," ","L","L","C">>>>,
   <<<<"H","i","g","h","l","a","n","d"," ","E","a","s","t">>,
     <<"H","i","g","h","l","a","n","d"," ","E","a","s","t"," ","A","p","a","r","t","m","e","n","t","s">>>>,
   <<<<"H","I","G","H","L","A","N","D"," ","E","A","S","T"," ","A","P","A","R","T","M","E","N","T","S">>,
     <<"H","i","g","h","l","a","n","d"," ","E","a","s","t"," ","A","p","a","r","t","m","e","n","t","s">>>>,
   <<<<"H","i","g","h","l","a","n","d"," ","E","a","s","t"," ","A","p","a","r","t","m","e","n","t","s">>,
     <<"H","i","g","h","l","a","n","d"," ","E","a","s","t"," ","A","p","a","r","t","m","e","n","t","s">>>> }

LODGING_VENDOR_IDS == {"1021245", "1020857", "1018405", "1018278", "1024315", "1023472"}

CONTRACT_NUMBER == <<"L","-","6","4","2","6"," ","/"," ","R","S","2","0","2","5","-","9","7","4">>
CONTRACT_REF == <<"R","S","2","0","2","5","-","9","7","4">>
ESA_NUMBER_1 == <<"9","7","0","0","2","7","4","8","5","3">>
ESA_NUMBER_2 == <<"9","7","0","0","2","8","3","3","8","6">>
INV_PLACEHOLDER == <<"I","N","V">>
INV_REDACTED == <<"I","N","V"," ","[","r","e","d","a","c","t","e","d","]">>
DEFAULT_DATE == <<"2","0","2","4","-","0","1","-","0","1">>


\* dateStr.replace(/-/g, '')
withoutDashes(s) == SelectSeq(s, LAMBDA c : c # "-")

\* name.substring(0, n).toUpperCase().replace(/[^A-Z]/g, 'X')
vendorPrefixOf(name, n) ==
  LET head == toUpperCase(SubSeq(name, 1, IF Len(name) < n THEN Len(name) ELSE n))
  IN [k \in 1..Len(head) |-> IF head[k] \in Range(UpperLetters) THEN head[k] ELSE "X"]

\* Rule 1: the record is a contract reference
isContractReference(inv) ==
  \/ inv.invoice_number = CONTRACT_NUMBER
  \/ startsWithAt(inv.invoice_number, 1, CONTRACT_REF)
  \/ (inv.service_description # <<>> /\ includes(inv.service_description, CONTRACT_REF))

\* Rule 2 for one of the two reused numbers
splitNumber(inv, idx, number) ==
  IF inv.invoice_number # number THEN inv
  ELSE LET page == IF inv.meta_source_page # 0 THEN inv.meta_source_page ELSE idx
           dateStr == OrSeq(inv.service_start,
                            OrSeq(inv.invoice_date,
                                  <<"P","A","G","E">> \o numberToString(page)))
       IN [inv EXCEPT
             !.invoice_number = <<"E","S","A","-">> \o number \o <<"-">> \o withoutDashes(dateStr),
             !.meta_notes = Append(@, "split due to duplicate"),
             !.merge_info = IF @ = NULL THEN NULL
                            ELSE [was_merged |-> FALSE,
                                  merge_reasoning |-> "Split from merged duplicates"]]


\* Rule 3: the placeholder number INV is replaced by a generated one
fillPlaceholder(inv, idx) ==
  IF inv.invoice_number # INV_PLACEHOLDER /\ inv.invoice_number # INV_REDACTED THEN inv
  ELSE LET vendorPrefix == IF inv.vendor_name # <<>> THEN vendorPrefixOf(inv.vendor_name, 3)
                           ELSE <<"U","N","K">>
           dateStr == OrSeq(inv.service_start, OrSeq(inv.invoice_date, DEFAULT_DATE))
       IN [inv EXCEPT
             !.invoice_number = vendorPrefix \o <<"-">> \o withoutDashes(dateStr)
                                  \o <<"-">> \o numberToString(idx),
             !.meta_notes = Append(@, "original was placeholder")]

\* Rule 4
consolidateVendorId(inv) ==
  IF inv.vendor_id \in VENDOR_ID_MAPPINGS_KEYS
    THEN [inv EXCEPT !.vendor_id = VENDOR_ID_MAPPINGS[inv.vendor_id]]
    ELSE inv

\* Rule 5
normalizeVendor(inv) ==
  IF \E p \in VENDOR_NAME_MAPPINGS : p[1] = inv.vendor_name
    THEN [inv EXCEPT !.vendor_name =
            (CHOOSE p \in VENDOR_NAME_MAPPINGS : p[1] = inv.vendor_name)[2]]
    ELSE inv

\* Rule 6: a missing number is replaced by a generated one
fillMissingNumber(inv, idx) ==
  IF inv.invoice_number # <<>> THEN inv
  ELSE LET vendorPrefix == IF inv.vendor_name # <<>> THEN vendorPrefixOf(inv.vendor_name, 4)
                           ELSE <<"U","N","K","N">>
           dateStr == OrSeq(inv.service_start, OrSeq(inv.invoice_date, DEFAULT_DATE))
       IN [inv EXCEPT
             !.invoice_number = vendorPrefix \o <<"-","M","I","S","S","I","N","G","-">> \o withoutDashes(dateStr)
                                  \o <<"-">> \o numberToString(idx),
             !.meta_notes = Append(@, "original was missing")]

\* Rule 7: a zero-amount record without vendor and without number
isZeroRecord(inv) ==
  /\ inv.invoice_total = 0
  /\ (inv.vendor_name = <<>> \/ inv.vendor_name = NA)
  /\ (inv.invoice_number = <<>> \/ inv.invoice_number = NA)


\* The property names the script rewrites
normalizeProperty(inv) ==
  LET p == inv.property_name
  IN [inv EXCEPT !.property_name =
        CASE p \in {"Greenview Studios", "Greenview Studios, LLC"} -> "Greenview Studios LLC"
          [] p \in {"97 Wallace Studios", "97 Wallace Studios, LLC"} -> "97 Wallace Studios LLC"
          [] p = "Highland East" -> "Highland East Apartments"
          [] p = "Hillside Crossing LLC" -> "Hillside Crossing Hotel"
          [] p = "ESA Suites - Nashville - Airport - Music City" ->
               "ESA Suites Nashville Airport Music City"
          [] OTHER -> p]

\* Rule 8
needsTypeCorrection(inv) ==
  inv.meta_invoice_type = "RENTAL" /\ inv.vendor_id \in LODGING_VENDOR_IDS

correctType(inv) ==
  IF ~needsTypeCorrection(inv) THEN inv
  ELSE [inv EXCEPT
          !.meta_invoice_type = "HOTEL",
          !.meta_notes = IF "Type corrected" \in Range(@) THEN @
                         ELSE Append(@, "Type corrected")]

\* The record as it stands when rule 7 looks at it (rules 2 to 6 applied);
\* idx is the 0-based index of the record
beforeZeroCheck(inv, idx) ==
  fillMissingNumber(
    normalizeVendor(
      consolidateVendorId(
        fillPlaceholder(
          splitNumber(splitNumber(inv, idx, ESA_NUMBER_1), idx, ESA_NUMBER_2),
          idx))),
    idx)

\* The record after the body of the second forEach
correctedInvoice(inv, idx) ==
  correctType(normalizeProperty(beforeZeroCheck(inv, idx)))

\* What the record at idx pushes on toRemove: its index once for rule 1 and
\* once for rule 7
marksOf(inv, idx) ==
  (IF isContractReference(inv) THEN <<idx>> ELSE <<>>)
    \o (IF isZeroRecord(beforeZeroCheck(inv, idx)) THEN <<idx>> ELSE <<>>)

\* toRemove after the loop
toRemoveOf(invoices) ==
  Flatten([k \in 1..Len(invoices) |-> marksOf(invoices[k], k - 1)])

\* toRemove.sort((a, b) => b - a)
RECURSIVE InsertDescending(_, _)
InsertDescending(x, sorted) ==
  IF sorted = <<>> THEN <<x>>
  ELSE IF x > Head(sorted) THEN <<x>> \o sorted
  ELSE <<Head(sorted)>> \o InsertDescending(x, Tail(sorted))

RECURSIVE sortDescending(_)
sortDescending(a) ==
  IF a = <<>> THEN <<>>
  ELSE InsertDescending(a[Len(a)], sortDescending(SubSeq(a, 1, Len(a) - 1)))

\* list.splice(idx, 1) for a 0-based idx
splice1(list, idx) ==
  IF idx >= Len(list) THEN list
  ELSE SubSeq(list, 1, idx) \o SubSeq(list, idx + 2, Len(list))

\* forEach(idx => data.invoices.splice(idx, 1)) over the sorted indices
RECURSIVE spliceAll(_, _)
spliceAll(list, idxs) ==
  IF idxs = <<>> THEN list
  ELSE spliceAll(splice1(list, Head(idxs)), Tail(idxs))

\* The sum of a sequence of numbers
RECURSIVE SumOf(_)
SumOf(a) == IF a = <<>> THEN 0 ELSE Head(a) + SumOf(Tail(a))

CountWhere(invoices, Test(_, _)) ==
  SumOf([k \in 1..Len(invoices) |-> IF Test(invoices[k], k - 1) THEN 1 ELSE 0])

\* changeLog after processOcrInvoices, every counter starting at 0
changeLogOf(invoices) ==
  LET afterSplit(inv, idx) == splitNumber(splitNumber(inv, idx, ESA_NUMBER_1), idx, ESA_NUMBER_2)
      afterFill(inv, idx) == fillPlaceholder(afterSplit(inv, idx), idx)
      afterNames(inv, idx) == normalizeVendor(consolidateVendorId(afterFill(inv, idx)))
  IN [contractsUnlinked |-> CountWhere(invoices, LAMBDA inv, idx : isContractReference(inv)),
      invoiceNumberSplits |->
        CountWhere(invoices, LAMBDA inv, idx : inv.invoice_number \in {ESA_NUMBER_1, ESA_NUMBER_2}),
      placeholdersFilled |->
        CountWhere(invoices, LAMBDA inv, idx :
          afterSplit(inv, idx).invoice_number \in {INV_PLACEHOLDER, INV_REDACTED}),
      vendorIdChanges |->
        CountWhere(invoices, LAMBDA inv, idx : inv.vendor_id \in VENDOR_ID_MAPPINGS_KEYS),
      vendorNameChanges |->
        CountWhere(invoices, LAMBDA inv, idx :
          \E p \in VENDOR_NAME_MAPPINGS : p[1] = inv.vendor_name),
      missingInvoicesFilled |->
        CountWhere(invoices, LAMBDA inv, idx : afterNames(inv, idx).invoice_number = <<>>),
      invoiceTypeCorrections |->
        CountWhere(invoices, LAMBDA inv, idx :
          needsTypeCorrection(beforeZeroCheck(inv, idx))),
      zeroRecordsRemoved |-> Len(toRemoveOf(invoices))]

\* data after processOcrInvoices; the list duplicateInvoices of the first
\* loop is never read
processOcrInvoices(invoices, now) ==
  LET corrected == [k \in 1..Len(invoices) |-> correctedInvoice(invoices[k], k - 1)]
      kept == spliceAll(corrected, sortDescending(toRemoveOf(invoices)))
  IN [invoices |-> kept,
      _metadata |-> [total_invoices |-> Len(kept), last_corrected |-> now],
      changeLog |-> changeLogOf(invoices)]


ESA_MANAGEMENT == <<"E","S","A"," ","M","A","N","A","G","E","M","E","N","T"," ","L","L","C">>
RANDSTAD == <<"R","a","n","d","s","t","a","d">>
CONTRACT_TEXT == <<"C","o","n","t","r","a","c","t"," ","R","S","2","0","2","5","-","9","7","4"," ","r","e","n","e","w","a","l">>

OcrInvoice(number, vendor, vid, total, description, start, type, merged) ==
  [meta_source_page |-> 0,
   invoice_number |-> number,
   vendor_name |-> vendor,
   vendor_id |-> vid,
   invoice_total |-> total,
   service_description |-> description,
   service_start |-> start,
   invoice_date |-> IF number = INV_PLACEHOLDER THEN <<>> ELSE DATE_ISO,
   property_name |-> IF vid = "1020857" THEN "Highland East" ELSE "",
   meta_invoice_type |-> type,
   meta_notes |-> <<>>,
   merge_info |-> IF merged THEN [was_merged |-> TRUE, merge_reasoning |-> "merged"]
                  ELSE NULL]

\* The records of ocr-invoices.json (before the page is set)
OcrInvoiceKinds ==
  { OcrInvoice(INV1, ACME, "V1", 54287, <<>>, <<>>, "INVOICE", FALSE),
    OcrInvoice(CONTRACT_NUMBER, ACME, "V1", 100000, <<>>, <<>>, "CONTRACT", FALSE),
    OcrInvoice(NA, <<>>, "", 0, CONTRACT_TEXT, <<>>, "CONTRACT", FALSE),
    OcrInvoice(<<>>, <<>>, "", 0, <<>>, <<>>, "UNKNOWN", FALSE),
    OcrInvoice(NA, <<>>, "", 0, <<>>, <<>>, "UNKNOWN", FALSE),
    OcrInvoice(INV1, <<>>, "", 0, <<>>, <<>>, "UNKNOWN", FALSE),
    OcrInvoice(NA, NA, "", 0, <<>>, <<>>, "UNKNOWN", FALSE),
    OcrInvoice(ESA_NUMBER_1, ESA_MANAGEMENT, "1020857", 54287, <<>>, DATE_SEP_01, "RENTAL", TRUE),
    OcrInvoice(INV_PLACEHOLDER, RANDSTAD, "51022", 100000, <<>>, <<>>, "STAFFING", FALSE),
    OcrInvoice(<<>>, ACME, "V1", 0, <<>>, <<>>, "INVOICE", FALSE) }

\* main has loaded ocr-invoices.json; every record has its own source page
CorrectionsInit ==
  /\ \E n \in 0..MaxInvoices : \E f \in [1..n -> OcrInvoiceKinds] :
       fnIn = [k \in 1..n |-> [f[k] EXCEPT !.meta_source_page = k]]
  /\ fnOut = <<>>
  /\ fnPc = "call"
  /\ AssemblerIdle
  /\ MatcherIdle

\* ocrData = processOcrInvoices(ocrData)
CorrectOcrInvoices ==
  /\ fnPc = "call"
  /\ \E now \in ClockValues : fnOut' = <<processOcrInvoices(fnIn, now)>>
  /\ fnPc' = "return"
  /\ UNCHANGED <<fnIn, asmVars, matchVars>>

CorrectionsNext == CorrectOcrInvoices

CorrectionsSpec == CorrectionsInit /\ [][CorrectionsNext]_vars

\* The source pages of the records of a list, in order
PagesOf(invoices) == [k \in 1..Len(invoices) |-> invoices[k].meta_source_page]

\* C26: every record with invoice_total 0 and a null or empty vendor name is
\* removed, whatever its invoice number was before the corrections ran
ZeroRecordsRemoved ==
  fnPc = "return" =>
    \A k \in 1..Len(fnIn) :
      (fnIn[k].invoice_total = 0 /\ fnIn[k].vendor_name = <<>>)
        => fnIn[k].meta_source_page \notin Range(PagesOf(fnOut[1].invoices))

\* A zero-amount record without vendor and without number that is still in
\* the list, under a generated number
ZeroRecordKept ==
  /\ fnPc = "return"
  /\ Len(fnIn) = 1
  /\ fnIn[1].invoice_total = 0
  /\ fnIn[1].vendor_name = <<>>
  /\ fnIn[1].invoice_number = <<>>
  /\ Len(fnOut[1].invoices) = 1
  /\ fnOut[1].invoices[1].invoice_number = <<"U","N","K","N","-","M","I","S","S","I","N","G","-","2","0","2","4","0","9","0","8","-","0">>

\* C29: the records removed are exactly the marked ones: every record that
\* no rule marked is still in the list, in the original relative order, also
\* when a record was marked by more than one rule
ExactlyMarkedRemoved ==
  fnPc = "return" =>
    PagesOf(fnOut[1].invoices) =
      SelectSeq(PagesOf(fnIn), LAMBDA page : (page - 1) \notin Range(toRemoveOf(fnIn)))

\* A record marked by rule 1 and by rule 7 takes the record behind it along
MarkedTwice ==
  /\ fnPc = "return"
  /\ Len(fnIn) = 2
  /\ toRemoveOf(fnIn) = <<0, 0>>
  /\ fnOut[1].invoices = <<>>

\* ------------------------------------------------------------------------
\* From the assembler to the matcher: the postProcessOCR column of data.csv
\* ------------------------------------------------------------------------
\* rowToPostProcessOCR: the merged document of the group of every row that
\* is a page of a group
rowToPostProcessOCR(groups) ==
  LET groupOf(n) == CHOOSE g \in 1..Len(groups) :
                      \E k \in 1..Len(groups[g]) :
                        /\ groups[g][k].row = n
                        /\ \A h \in (g + 1)..Len(groups) :
                             \A j \in 1..Len(groups[h]) : groups[h][j].row # n
  IN [n \in UNION {{groups[g][k].row : k \in 1..Len(groups[g])} : g \in 1..Len(groups)} |->
        createMergedInvoice(groups[groupOf(n)])]

\* The cell JSON.stringify(postOcr, null, 2) writes and parseCSV reads back.
\* The text of a document of the model starts with '{', ends with '}' and
\* holds neither an image prefix nor a code fence: it is kept as the
\* document under the tag json, the empty cell being <<>>
jsonCell(postOcr) == [json |-> postOcr]

\* updatedData: every row with its postProcessOCR cell
updatedDataOf(rs) ==
  LET map == rowToPostProcessOCR(processInvoices(rs))
  IN [k \in 1..Len(rs) |->
        [Number |-> rs[k].Number,
         OCR |-> rs[k].OCR,
         postProcessOCR |-> IF rs[k].Number \in DOMAIN map
                              THEN jsonCell(map[rs[k].Number])
                              ELSE <<>>]]

\* parseOCR on a postProcessOCR cell: null for the empty cell, the document
\* JSON.parse reads for the others
parsePostProcessOCR(cell) == IF cell = <<>> THEN NULL ELSE cell.json

\* Mutant of ocrKeyOf: every row is keyed by its own number
ocrKeyByRow(postOcr, row) == row.Number

\* postOcr.all_source_rows?.[0] || row.Number
ocrKeyOf(postOcr, row) ==
  IF postOcr.all_source_rows # <<>> THEN postOcr.all_source_rows[1] ELSE row.Number

\* The forEach over ocrRaw with the Set seenInvoices
RECURSIVE extractFrom(_, _, _)
extractFrom(data, k, seen) ==
  IF k > Len(data) THEN <<>>
  ELSE LET postOcr == parsePostProcessOCR(data[k].postProcessOCR)
       IN IF postOcr = NULL THEN extractFrom(data, k + 1, seen)
          ELSE LET key == ocrKeyOf(postOcr, data[k])
               IN IF key \in seen THEN extractFrom(data, k + 1, seen)
                  ELSE <<postOcr>> \o extractFrom(data, k + 1, seen \cup {key})

extractOcrInvoices(data) == extractFrom(data, 1, {})

\* The page payloads of the rows handed from one script to the other
HandoverKinds ==
  { Ocr(FALSE, DATE_ISO, INV1,  "V1", "B1", ACME, FALSE, 0, "LODGING"),
    Ocr(TRUE,  <<>>,     <<>>,  "",   "",   ACME, FALSE, 0, "LODGING"),
    Ocr(FALSE, DATE_ISO, FOLIO, "",   "B1", ACME, TRUE, 54287, "LODGING"),
    Ocr(FALSE, DATE_ISO, INV2,  "V2", "B2", DEPAUL, TRUE, 100000, "STAFFING") }

HandoverPayloads ==
  {NULL} \cup {[k EXCEPT !.meta_source_page = n] : k \in HandoverKinds, n \in {10, 11, 12}}

\* The post-processing script has read data.csv; every row has its own
\* number
HandoverInit ==
  /\ \E n \in 0..MaxRows : \E f \in [1..n -> HandoverPayloads] :
       fnIn = [k \in 1..n |-> [Number |-> k, OCR |-> f[k]]]
  /\ fnOut = <<>>
  /\ fnPc = "call"
  /\ AssemblerIdle
  /\ MatcherIdle

\* main of the post-processing script groups, merges and writes data.csv
WritePostProcessOCR ==
  /\ fnPc = "call"
  /\ fnOut' = <<updatedDataOf(fnIn)>>
  /\ fnPc' = "written"
  /\ UNCHANGED <<fnIn, asmVars, matchVars>>

\* main of the ledger merge script reads data.csv and extracts the documents
ExtractOcrInvoices ==
  /\ fnPc = "written"
  /\ fnOut' = Append(fnOut, extractOcrInvoices(fnOut[1]))
  /\ fnPc' = "return"
  /\ UNCHANGED <<fnIn, asmVars, matchVars>>

HandoverNext == WritePostProcessOCR \/ ExtractOcrInvoices

HandoverSpec == HandoverInit /\ [][HandoverNext]_vars

\* The row numbers of the pages of a group
RowsOfGroup(group) == {group[k].row : k \in 1..Len(group)}

\* C30: the matcher receives exactly one document per assembler group: with
\* a distinct row number on every row, the list extracted from the per-row
\* merged payloads holds one entry for each group, whatever its size, and no
\* document for a row without a parsed payload
OneDocumentPerGroup ==
  fnPc = "return" =>
    LET groups == processInvoices(fnIn)
        docs == fnOut[2]
    IN /\ Len(docs) = Len(groups)
       /\ \A g \in 1..Len(groups) :
            Cardinality({d \in 1..Len(docs) :
                           Range(docs[d].all_source_rows) = RowsOfGroup(groups[g])}) = 1
       /\ \A d \in 1..Len(docs) : \A n \in Range(docs[d].all_source_rows) :
            fnIn[n].OCR # NULL

\* Witness of C30: three rows, the second without a parsed payload, the
\* other two one group; the matcher extracts one document
HandoverWitness ==
  /\ fnPc = "return"
  /\ Len(fnIn) = 3
  /\ fnIn[2].OCR = NULL
  /\ Len(processInvoices(fnIn)) = 1
  /\ Len(fnOut[2]) = 1
  /\ fnOut[2][1].all_source_rows = <<1, 3>>

====
